---------------------------- MODULE Spec2Model ----------------------------
(***************************************************************************)
(* A model of the remus messaging core: the Message codec (src/src/lib.rs) *)
(* the framed Transport (src/src/transport.rs), the payload pipeline       *)
(* (src/src/compression.rs, src/src/encryption.rs), the MessageStream      *)
(* (src/src/stream.rs), the RemusClient (src/src/client.rs), the           *)
(* ServiceRegistry (src/src/discovery.rs), the StateManager                *)
(* (src/src/state.rs) and Telemetry (src/src/observability.rs).            *)
(*                                                                         *)
(* Bytes are integers 0..255 and byte strings are sequences of them, with  *)
(* Rust's 0-based half-open ranges kept in the slicing operators.  TLC's   *)
(* integers are 32 bits wide, so the sampled field values and the bytes an *)
(* adversary writes keep every decoded u32/u64 below 2^31.                 *)
(***************************************************************************)
EXTENDS Integers, Sequences, FiniteSets, TLC

VARIABLES
    \* ---- codec harness (Message::encode / Message::decode) ----
    c_pc,        \* "new" | "encoded" | "tampered" | "overwritten", then
                 \* "roundtrip" (decode of encode's own bytes) | "decoded"
    original,    \* the in-memory Message handed to encode
    encoded,     \* the byte string handed to decode
    decoded,     \* the outcome of Message::decode, <<>> before it ran
    \* ---- Transport<T>, sending side and the endpoint ----
    s_pc,        \* "idle" | "writing" | "flushing": position inside send
    write_buf,   \* Transport.write_buf of the sending transport
    sent,        \* the messages passed to send so far, in call order
    send_results,\* what each send call returned, in call order
    wire,        \* every byte the endpoint accepted from write, in order
    flushed,     \* how many bytes of wire a flush has covered
    inner,       \* bytes accepted by the endpoint and not yet read by the peer
    io_errors,   \* how many reads, writes or flushes failed so far
    injected,    \* how many raw frames an adversarial peer wrote
    closed,      \* the sending endpoint was dropped (the peer reads EOF)
    stalled,     \* a write of the send call in progress accepted zero bytes
    \* ---- Transport<T>, receiving side ----
    r_pc,        \* "idle" | "running" | "panicked": position inside receive
    read_buf,    \* Transport.read_buf of the receiving transport
    split,       \* a read of the latest receive call ended inside a length prefix
    carried,     \* a frame was returned while bytes of the next one were buffered
    received,    \* what each receive call returned, in call order
    \* ---- payload pipeline (compression.rs, encryption.rs) ----
    p_pc,        \* "new" | "compressed" | "encrypted" | "decrypted", or
                 \* "foreign" | "answered" around a decrypt of other bytes
    p_data,      \* the bytes handed to compress_if_beneficial or to encrypt
    p_key,       \* the 32-byte key of the Encryptor
    p_nonce,     \* the nonce the random generator produced for encrypt
    p_out,       \* what compress_if_beneficial or encrypt returned
    p_dec,       \* the outcome of decrypt, <<>> before it ran
    p_log,       \* nonce and output of every encrypt call so far, in call order
    p_in,        \* the bytes handed to decrypt when they are not p_out itself
    p_dkey,      \* the key of the Encryptor that decrypts p_in
    p_case,      \* where p_in came from: "none" | "tampered" | "rekeyed" | "forged"
    \* ---- MessageStream (stream.rs) and its mpsc channel ----
    st_cap,      \* the capacity the channel was created with
    st_id,       \* MessageStream.stream_id
    st_closed,   \* MessageStream.closed
    st_queue,    \* the messages the channel holds, oldest first
    st_tx,       \* the Sender returned by MessageStream::new is alive
    st_blocked,  \* <<m>> while a send of m is suspended on the full channel
    st_pushed,   \* the messages the producer passed to send, in call order
    st_pulled,   \* what each poll_next returned, in call order
    \* ---- RemusClient (client.rs) and the server it talks to ----
    q_pc,        \* "idle" | "sending" | "receiving" (inside request) |
                 \* "streaming" (inside stream)
    q_key,       \* RemusClient.encryptor: <<>> for None, <<k>> for a key k
    q_calls,     \* the calls made so far: operation, payload and the random
                 \* values drawn inside the call
    q_results,   \* what each call returned, in call order
    back,        \* bytes the server wrote that the client has not read yet
    srv_msgs,    \* the messages the server has started to write, in order
    srv_out,     \* the bytes of the server's latest frame still to be written
    srv_closed,  \* the server dropped its endpoint (the client reads EOF)
    \* ---- ServiceRegistry (discovery.rs) ----
    g_owner,     \* "caller": a registry its owner calls directly;
                 \* "client": RemusClient.service_registry
    g_ttl,       \* ServiceRegistry.ttl
    g_now,       \* what SystemTime::now() returns
    g_services,  \* ServiceRegistry.services: a function from ids to ServiceInfo
    g_last,      \* the latest call: operation, id, the registry before it,
                 \* the time it ran at and what it returned
    \* ---- StateManager (state.rs) ----
    m_max,       \* StateManager.max_versions
    m_state,     \* StateManager.state: a function from keys to byte strings
    m_versions,  \* StateManager.versions, oldest first
    m_applied,   \* every apply_delta call since construction: key, delta and
                 \* the StateVersion it returned, in call order
    m_cleared,   \* how many entries m_applied held at the latest clear_state
    m_clears,    \* how many clear_state calls were made
    m_last,      \* the latest call: operation, key, state and versions before
                 \* it and what it returned
    \* ---- Telemetry (observability.rs), one of its two channels ----
    t_ch,        \* "metrics" (record_metric) | "traces" (record_trace)
    t_cap,       \* the capacity the channel was created with
    t_queue,     \* the items the channel holds, oldest first
    t_waiting,   \* the items of the suspended record calls, in arrival order
    t_rx,        \* the Receiver returned by Telemetry::new is alive
    t_ret,       \* per record call, in call order: Suspended or what it returned
    t_taken,     \* the items the receiver took, in order
    \* ---- tasks that share one StateManager (state.rs), lock by lock ----
    k_pc,        \* per task: "idle" | "acquire" (about to ask for a lock) |
                 \* "waiting" (queued on it) | "body" (all locks held) |
                 \* "half" (state changed, versions not yet) | "release"
    k_call,      \* per task: the call it is in, its arguments and locals
    k_step,      \* per task: which lock of the call's plan it asks for, and
                 \* from "body" on how many guards it still holds
    k_locks,     \* the two RwLocks: who holds each, and its FIFO of waiters
    k_log        \* the calls that ran their body, in that order, with what
                 \* they return

codecVars == <<c_pc, original, encoded, decoded>>
sendVars  == <<s_pc, write_buf, sent, send_results, wire, flushed, inner, io_errors,
              injected, closed, stalled>>
recvVars  == <<r_pc, read_buf, split, carried, received>>
transVars == <<sendVars, recvVars>>
pipeVars  == <<p_pc, p_data, p_key, p_nonce, p_out, p_dec, p_log, p_in, p_dkey,
               p_case>>
streamVars == <<st_cap, st_id, st_closed, st_queue, st_tx, st_blocked, st_pushed,
               st_pulled>>
clientVars == <<q_pc, q_key, q_calls, q_results, back, srv_msgs, srv_out, srv_closed>>
regVars   == <<g_owner, g_ttl, g_now, g_services, g_last>>
stateVars == <<m_max, m_state, m_versions, m_applied, m_cleared, m_clears,
               m_last>>
telVars   == <<t_ch, t_cap, t_queue, t_waiting, t_rx, t_ret, t_taken>>
lockVars  == <<k_pc, k_call, k_step, k_locks, k_log>>
vars      == <<codecVars, transVars, pipeVars, streamVars, clientVars, regVars,
               stateVars, telVars, lockVars>>

\* what a step of one component leaves alone
offCodec     == <<transVars, pipeVars, streamVars, clientVars, regVars,
                 stateVars, telVars, lockVars>>
offTransport == <<codecVars, pipeVars, streamVars, clientVars, regVars,
                 stateVars, telVars, lockVars>>
offPipeline  == <<codecVars, transVars, streamVars, clientVars, regVars,
                 stateVars, telVars, lockVars>>
offStream    == <<codecVars, transVars, pipeVars, clientVars, regVars,
                 stateVars, telVars, lockVars>>
offClient    == <<codecVars, pipeVars, regVars,
                 stateVars, telVars, lockVars>>
offRegistry  == <<codecVars, transVars, pipeVars, streamVars, clientVars,
                 stateVars, telVars, lockVars>>
offState     == <<codecVars, transVars, pipeVars, streamVars, clientVars,
                 regVars, telVars, lockVars>>
offTelemetry == <<codecVars, transVars, pipeVars, streamVars, clientVars,
                 regVars, stateVars, lockVars>>
offLock      == <<codecVars, transVars, pipeVars, streamVars, clientVars,
                 regVars, telVars>>

---------------------------------------------------------------------------
(* Bounds of the model *)

\* longest payload of a sampled message
MaxPayload == 1
\* how many bytes an adversary appends after an encoded message
MaxExtra == 1
\* how many messages are passed to Transport::send
MaxMsgs == 2
\* capacity of the byte pipe between the two endpoints (tokio duplex(n))
PipeCap == 3
\* how many writes or flushes of the endpoint may fail
MaxIoErrors == 1
\* how many raw frames an adversarial peer writes
MaxInject == 1
\* how many times Transport::receive is called
MaxRecvs == 3
\* longest input handed to the payload pipeline
MaxData == 4
\* capacity of the channel of a MessageStream made by the stream harness
StreamCap == 2
\* how many messages a producer passes to Sender::send
MaxPushes == 4
\* how many times poll_next is called
MaxPulls == 4
\* how many times RemusClient::request or RemusClient::stream is called
MaxCalls == 2
\* encrypt calls made on one Encryptor with one plaintext
MaxEncrypts == 2
\* the latest time the clock reaches
MaxClock == 2
\* apply_delta calls made on one StateManager
MaxDeltas == 4
\* clear_state calls made on one StateManager
MaxClears == 1
\* record_metric or record_trace calls made on one Telemetry
MaxRecords == 4

\* the tasks that share a StateManager, and the calls they make in all
MaxWorkers == 2

MaxLockCalls == 2

---------------------------------------------------------------------------
(* Bytes, bit operations, big-endian integers *)

RECURSIVE BitAnd(_, _)
BitAnd(a, b) ==
    IF a = 0 \/ b = 0 THEN 0
    ELSE (a % 2) * (b % 2) + 2 * BitAnd(a \div 2, b \div 2)

RECURSIVE BitOr(_, _)
BitOr(a, b) ==
    IF a = 0 THEN b
    ELSE IF b = 0 THEN a
    ELSE (IF a % 2 = 1 \/ b % 2 = 1 THEN 1 ELSE 0) + 2 * BitOr(a \div 2, b \div 2)

\* uN::to_be_bytes: the n bytes of v, most significant first
RECURSIVE to_be_bytes(_, _)
to_be_bytes(v, n) ==
    IF n = 0 THEN <<>>
    ELSE Append(to_be_bytes(v \div 256, n - 1), v % 256)

\* uN::from_be_bytes
RECURSIVE from_be_bytes(_)
from_be_bytes(b) ==
    IF Len(b) = 0 THEN 0
    ELSE from_be_bytes(SubSeq(b, 1, Len(b) - 1)) * 256 + b[Len(b)]

\* buf[lo..hi] of Rust: 0-based, hi excluded; the caller checks SliceInRange
Slice(buf, lo, hi) == SubSeq(buf, lo + 1, hi)

\* whether buf[lo..hi] is in range (otherwise Rust's slicing panics)
SliceInRange(buf, lo, hi) == lo <= hi /\ hi <= Len(buf)

\* whether buf[i] is in range (otherwise Rust's indexing panics)
IndexInRange(buf, i) == i < Len(buf)

\* buf[i] of Rust, 0-based
At(buf, i) == buf[i + 1]

---------------------------------------------------------------------------
(* MessageFlags (bitflags over u8) and MessageType *)

NONE == 0
ENCRYPTED == 1
COMPRESSED == 2
URGENT == 4
REQUIRES_ACK == 8
IDEMPOTENT == 16
HIGH_PRIORITY == 32
REQUIRES_AUTH == 64

\* MessageFlags::all(): the union of the defined flags
FlagsAll ==
    BitOr(ENCRYPTED, BitOr(COMPRESSED, BitOr(URGENT, BitOr(REQUIRES_ACK,
        BitOr(IDEMPOTENT, BitOr(HIGH_PRIORITY, REQUIRES_AUTH))))))

\* MessageFlags::from_bits_truncate: undefined bits are dropped
from_bits_truncate(bits) == BitAnd(bits, FlagsAll)

MessageType == {"Request", "Response", "Event", "Error"}

\* `self.msg_type as u8`: the discriminant of the enum, in declaration order
TypeByte(t) ==
    CASE t = "Request" -> 0
      [] t = "Response" -> 1
      [] t = "Event" -> 2
      [] t = "Error" -> 3

\* a type byte decode maps Event and Error the wrong way round
TypeOfByte_swapped(b) ==
    CASE b = 0 -> <<"Request">>
      [] b = 1 -> <<"Response">>
      [] b = 2 -> <<"Error">>
      [] b = 3 -> <<"Event">>
      [] OTHER -> <<"Request">>

\* the match on the type byte in decode; <<>> is the `_ =>` arm
TypeOfByte(b) ==
    CASE b = 0 -> <<"Request">>
      [] b = 1 -> <<"Response">>
      [] b = 2 -> <<"Event">>
      [] b = 3 -> <<"Error">>
      [] OTHER -> <<>>

---------------------------------------------------------------------------
(* Message, encode, decode *)

\* Option<String>::None
None == "None"

Msg(t, f, p, ts, rid, prio, ttl) ==
    [msg_type |-> t, flags |-> f, payload |-> p, timestamp |-> ts,
     request_id |-> rid, priority |-> prio, ttl |-> ttl,
     routing_info |-> None, context |-> None]

\* field order of the header with timestamp and request_id exchanged
encode_swapped(m) ==
    <<TypeByte(m.msg_type)>> \o <<m.flags>>
        \o to_be_bytes(m.request_id, 8) \o to_be_bytes(m.timestamp, 8)
        \o <<m.priority>> \o to_be_bytes(m.ttl, 4)
        \o to_be_bytes(Len(m.payload), 4) \o m.payload

\* Message::encode
encode(m) ==
    <<TypeByte(m.msg_type)>> \o <<m.flags>>
        \o to_be_bytes(m.timestamp, 8) \o to_be_bytes(m.request_id, 8)
        \o <<m.priority>> \o to_be_bytes(m.ttl, 4)
        \o to_be_bytes(Len(m.payload), 4) \o m.payload

\* outcomes of a call: Ok(value), Err(ProtocolError), or an abort (panic)
Ok(m) == [kind |-> "Ok", err |-> "", text |-> "", val |-> <<m>>]
Err(e, t) == [kind |-> "Err", err |-> e, text |-> t, val |-> <<>>]
Panic(t) == [kind |-> "Panic", err |-> "", text |-> t, val |-> <<>>]

\* the `buf.len() < 24` guard of decode
MinMessageSize == 24

\* the number of bytes encode writes before the payload
HeaderLen == 1 + 1 + 8 + 8 + 1 + 4 + 4

\* a length check that accepts one byte too few
PayloadFits_short(buf, pos, payload_len) == ~(Len(buf) + 1 < pos + payload_len)

\* the negation of `buf.len() < pos + payload_len`
PayloadFits(buf, pos, payload_len) == ~(Len(buf) < pos + payload_len)

\* a payload slice that runs to the end of the buffer
PayloadSlice_rest(buf, pos, payload_len) == Slice(buf, pos, Len(buf))

\* `&buf[pos..pos+payload_len]`
PayloadSlice(buf, pos, payload_len) == Slice(buf, pos, pos + payload_len)

\* flags kept as read, undefined bits included
DecodeFlags_retain(b) == b

\* `MessageFlags::from_bits_truncate(buf[pos])`
DecodeFlags(b) == from_bits_truncate(b)

\* Message::decode, statement by statement; an index or a range out of
\* bounds is Rust's panic
decode(buf) ==
    IF Len(buf) < MinMessageSize THEN Err("InvalidFormat", "Message too short")
    ELSE IF ~IndexInRange(buf, 0) THEN Panic("index out of bounds")
    ELSE IF TypeOfByte(At(buf, 0)) = <<>> THEN Err("InvalidFormat", "Invalid message type")
    ELSE IF ~IndexInRange(buf, 1) THEN Panic("index out of bounds")
    ELSE IF ~SliceInRange(buf, 2, 10) THEN Panic("range end index out of range")
    ELSE IF ~SliceInRange(buf, 10, 18) THEN Panic("range end index out of range")
    ELSE IF ~IndexInRange(buf, 18) THEN Panic("index out of bounds")
    ELSE IF ~SliceInRange(buf, 19, 23) THEN Panic("range end index out of range")
    ELSE IF ~SliceInRange(buf, 23, 27) THEN Panic("range end index out of range")
    ELSE LET msg_type    == TypeOfByte(At(buf, 0))[1]
             flags       == DecodeFlags(At(buf, 1))
             timestamp   == from_be_bytes(Slice(buf, 2, 10))
             request_id  == from_be_bytes(Slice(buf, 10, 18))
             priority    == At(buf, 18)
             ttl         == from_be_bytes(Slice(buf, 19, 23))
             payload_len == from_be_bytes(Slice(buf, 23, 27))
             pos         == 27
         IN  IF ~PayloadFits(buf, pos, payload_len)
             THEN Err("InvalidFormat", "Invalid payload length")
             ELSE IF ~SliceInRange(buf, pos, pos + payload_len)
             THEN Panic("range end index out of range")
             ELSE Ok(Msg(msg_type, flags, PayloadSlice(buf, pos, payload_len),
                         timestamp, request_id, priority, ttl))

---------------------------------------------------------------------------
(* Sampled inputs *)

\* flags values a program can hold: the empty set, one flag, all flags, and
\* values with the undefined bit 0x80 (from_bits_retain keeps them)
FlagSamples == {NONE, IDEMPOTENT, FlagsAll, 128, 145, 255}

PayloadByteSamples == {0, 255}

RECURSIVE SeqsUpTo(_, _)
SeqsUpTo(S, n) ==
    IF n = 0 THEN {<<>>}
    ELSE LET shorter == SeqsUpTo(S, n - 1)
         IN  shorter \cup {Append(s, x) : s \in {t \in shorter : Len(t) = n - 1}, x \in S}

PayloadSamples == SeqsUpTo(PayloadByteSamples, MaxPayload)

\* the message of test_message_encoding_decoding, and one other value per
\* scalar field
BaseScalars == [timestamp |-> 12345, request_id |-> 67890, priority |-> 1, ttl |-> 3600]
ScalarSamples ==
    {BaseScalars,
     [BaseScalars EXCEPT !.timestamp = 0],
     [BaseScalars EXCEPT !.timestamp = 16777215],
     [BaseScalars EXCEPT !.request_id = 1],
     [BaseScalars EXCEPT !.priority = 255],
     [BaseScalars EXCEPT !.ttl = 30000]}

\* routing_info and context of an in-memory message: both None, or both Some
OptionSamples == {None, "edge-1"}

MessageSamples ==
    {[Msg(t, f, p, s.timestamp, s.request_id, s.priority, s.ttl)
         EXCEPT !.routing_info = o, !.context = o] :
        t \in MessageType, f \in FlagSamples, p \in PayloadSamples, s \in ScalarSamples,
        o \in OptionSamples}

\* byte values an adversary writes over the type, flags or length byte
TamperBytes == {0, 1, 3, 4, 128, 255}

\* 0-based offsets the adversary overwrites: the type byte, the flags byte,
\* the priority byte and the lowest byte of payload_len
TamperOffsets == {0, 1, 18, 26}

---------------------------------------------------------------------------
(* The codec harness: encode a message, let the bytes be damaged, decode *)

CodecInit ==
    /\ c_pc = "new"
    /\ original \in MessageSamples
    /\ encoded = <<>>
    /\ decoded = <<>>

\* let encoded = original.encode()
CodecEncode ==
    /\ c_pc = "new"
    /\ encoded' = encode(original)
    /\ c_pc' = "encoded"
    /\ UNCHANGED <<original, decoded>>
    /\ UNCHANGED offCodec

\* the bytes are cut short before they reach decode
CodecTruncate ==
    /\ c_pc = "encoded"
    /\ \E k \in 0..(Len(encoded) - 1) : encoded' = SubSeq(encoded, 1, k)
    /\ c_pc' = "tampered"
    /\ UNCHANGED <<original, decoded>>
    /\ UNCHANGED offCodec

\* one byte of the header is overwritten
CodecOverwrite ==
    /\ c_pc \in {"encoded", "tampered"}
    /\ \E i \in TamperOffsets, b \in TamperBytes :
          /\ i < Len(encoded)
          /\ At(encoded, i) # b
          /\ encoded' = [encoded EXCEPT ![i + 1] = b]
    /\ c_pc' = "overwritten"
    /\ UNCHANGED <<original, decoded>>
    /\ UNCHANGED offCodec

\* bytes follow the message in the buffer handed to decode
CodecExtend ==
    /\ c_pc = "encoded"
    /\ \E x \in SeqsUpTo({7}, MaxExtra) : x # <<>> /\ encoded' = encoded \o x
    /\ c_pc' = "tampered"
    /\ UNCHANGED <<original, decoded>>
    /\ UNCHANGED offCodec

\* let decoded = Message::decode(&encoded)
CodecDecode ==
    /\ c_pc \in {"encoded", "tampered", "overwritten"}
    /\ decoded' = <<decode(encoded)>>
    /\ c_pc' = IF c_pc = "encoded" THEN "roundtrip" ELSE "decoded"
    /\ UNCHANGED <<original, encoded>>
    /\ UNCHANGED offCodec

CodecNext ==
    \/ CodecEncode
    \/ CodecTruncate
    \/ CodecOverwrite
    \/ CodecExtend
    \/ CodecDecode

\* the codec harness at rest, while the transport runs
CodecIdle ==
    /\ c_pc = "new"
    /\ original = Msg("Request", NONE, <<>>, 12345, 67890, 1, 3600)
    /\ encoded = <<>>
    /\ decoded = <<>>

---------------------------------------------------------------------------
(* Transport<T>: send *)

Take(s, n) == SubSeq(s, 1, n)
Drop(s, n) == SubSeq(s, n + 1, Len(s))

Min(a, b) == IF a < b THEN a ELSE b

\* a frame whose prefix counts itself too
Frame_counts_prefix(m) == to_be_bytes(Len(encode(m)) + 4, 4) \o encode(m)

\* what send appends to write_buf: put_u32(len), extend_from_slice(&encoded)
Frame(m) == to_be_bytes(Len(encode(m)), 4) \o encode(m)

\* the messages a sender passes to send: the message of
\* test_transport_send_receive with an empty payload, and one with the
\* longest sampled payload and flags that hold the undefined bit
WireMessages ==
    {Msg("Request", NONE, <<>>, 12345, 67890, 1, 3600),
     Msg("Response", 145, [i \in 1..MaxPayload |-> 255], 0, 1, 0, 30000)}

TransInit ==
    /\ s_pc = "idle"
    /\ write_buf = <<>>
    /\ sent = <<>>
    /\ send_results = <<>>
    /\ wire = <<>>
    /\ flushed = 0
    /\ inner = <<>>
    /\ io_errors = 0
    /\ injected = 0
    /\ closed = FALSE
    /\ stalled = FALSE
    /\ r_pc = "idle"
    /\ read_buf = <<>>
    /\ split = FALSE
    /\ carried = FALSE
    /\ received = <<>>

\* send(message), up to its first write: the frame is appended to write_buf
SendCall ==
    /\ s_pc = "idle"
    /\ ~closed
    /\ Len(sent) + injected < MaxMsgs
    /\ \E m \in WireMessages :
          /\ write_buf' = write_buf \o Frame(m)
          /\ sent' = Append(sent, m)
    /\ s_pc' = "writing"
    /\ stalled' = FALSE
    /\ UNCHANGED <<send_results, wire, flushed, inner, io_errors, injected, closed>>
    /\ UNCHANGED recvVars
    /\ UNCHANGED offTransport

\* a cursor that takes every write for a complete one
Advance_all(buf, n) == <<>>

\* write_buf.advance(bytes_written)
Advance(buf, n) == Drop(buf, n)

\* one turn of `while !write_buf.is_empty()`: inner.write accepts n bytes of
\* write_buf (as many as the pipe has room for, possibly none) and the cursor
\* advances by n; a write of zero bytes is one more turn of the loop; the
\* loop ends when write_buf is empty
SendWrite ==
    /\ s_pc = "writing"
    /\ write_buf # <<>>
    /\ \E n \in 0..Min(Len(write_buf), PipeCap - Len(inner)) :
          /\ wire' = wire \o Take(write_buf, n)
          /\ inner' = inner \o Take(write_buf, n)
          /\ write_buf' = Advance(write_buf, n)
          /\ stalled' = (stalled \/ n = 0)
    /\ s_pc' = IF write_buf' = <<>> THEN "flushing" ELSE "writing"
    /\ UNCHANGED <<sent, send_results, flushed, io_errors, injected, closed>>
    /\ UNCHANGED recvVars
    /\ UNCHANGED offTransport

\* a buffer that is local to the call and starts empty at the next one
AfterReturn_cleared(buf) == <<>>

\* write_buf is a field of Transport: what a send that returned or was
\* dropped leaves in it is there when the next send begins
AfterReturn(buf) == buf

\* inner.write fails: `?` returns the error, write_buf keeps the unsent bytes
SendWriteErr ==
    /\ s_pc = "writing"
    /\ io_errors < MaxIoErrors
    /\ io_errors' = io_errors + 1
    /\ send_results' = Append(send_results, Err("IoError", "write"))
    /\ write_buf' = AfterReturn(write_buf)
    /\ s_pc' = "idle"
    /\ stalled' = FALSE
    /\ UNCHANGED <<sent, wire, flushed, inner, injected, closed>>
    /\ UNCHANGED recvVars
    /\ UNCHANGED offTransport

\* inner.flush() succeeds and send returns Ok(())
SendFlush ==
    /\ s_pc = "flushing"
    /\ flushed' = Len(wire)
    /\ send_results' = Append(send_results, Ok("unit"))
    /\ s_pc' = "idle"
    /\ stalled' = FALSE
    /\ UNCHANGED <<write_buf, sent, wire, inner, io_errors, injected, closed>>
    /\ UNCHANGED recvVars
    /\ UNCHANGED offTransport

\* inner.flush() fails: `?` returns the error
SendFlushErr ==
    /\ s_pc = "flushing"
    /\ io_errors < MaxIoErrors
    /\ io_errors' = io_errors + 1
    /\ send_results' = Append(send_results, Err("IoError", "flush"))
    /\ s_pc' = "idle"
    /\ stalled' = FALSE
    /\ UNCHANGED <<write_buf, sent, wire, flushed, inner, injected, closed>>
    /\ UNCHANGED recvVars
    /\ UNCHANGED offTransport

\* the value recorded for a call whose future was dropped before it returned
Cancelled == [kind |-> "Cancelled", err |-> "", text |-> "", val |-> <<>>]

\* the future of send is dropped at one of its awaits (a write that has
\* not accepted bytes yet, or the flush): the bytes not yet accepted stay in
\* write_buf, the accepted ones are on the endpoint, and the caller gets no
\* value
SendCancel ==
    /\ s_pc \in {"writing", "flushing"}
    /\ send_results' = Append(send_results, Cancelled)
    /\ write_buf' = AfterReturn(write_buf)
    /\ s_pc' = "idle"
    /\ stalled' = FALSE
    /\ UNCHANGED <<sent, wire, flushed, inner, io_errors, injected, closed>>
    /\ UNCHANGED recvVars
    /\ UNCHANGED offTransport

\* the sending endpoint is dropped between two sends
Close ==
    /\ s_pc = "idle"
    /\ ~closed
    /\ closed' = TRUE
    /\ UNCHANGED <<s_pc, write_buf, sent, send_results, wire, flushed, inner, io_errors,
                   injected, stalled>>
    /\ UNCHANGED recvVars
    /\ UNCHANGED offTransport

\* a peer that does not use Transport writes a frame of its own making: a
\* length prefix k and the first k bytes of an encoded message, its type
\* byte possibly invalid
RawFrame(m, k, t) ==
    LET body == encode(m)
        bad  == [body EXCEPT ![1] = t]
    IN  to_be_bytes(k, 4) \o Take(bad, k)

\* the message whose bytes the adversarial peer cuts and damages
RawMessages == {Msg("Request", 145, [i \in 1..MaxPayload |-> 255], 0, 1, 0, 30000)}

Inject ==
    /\ s_pc = "idle"
    /\ ~closed
    /\ injected < MaxInject
    /\ Len(sent) + injected < MaxMsgs
    /\ \E m \in RawMessages, k \in 0..(HeaderLen + MaxPayload), t \in {0, 4} :
          /\ k <= Len(encode(m))
          /\ write_buf' = write_buf \o RawFrame(m, k, t)
    /\ injected' = injected + 1
    /\ s_pc' = "writing"
    /\ UNCHANGED <<sent, send_results, wire, flushed, inner, io_errors, closed, stalled>>
    /\ UNCHANGED recvVars
    /\ UNCHANGED offTransport

---------------------------------------------------------------------------
(* Transport<T>: receive *)

\* `(&self.read_buf[..4]).get_u32()`
FrameLen(buf) == from_be_bytes(Slice(buf, 0, 4))

\* a completeness test that forgets the prefix
NeedMore_no_prefix(buf) ==
    IF Len(buf) < 4 THEN TRUE ELSE Len(buf) < FrameLen(buf)

\* the two `continue` branches of the loop: fewer than 4 bytes buffered, or
\* fewer than 4 + len
NeedMore(buf) ==
    IF Len(buf) < 4 THEN TRUE ELSE Len(buf) < 4 + FrameLen(buf)

\* advance(4) and split_to(len): the frame body
FrameBody(buf) == Slice(buf, 4, 4 + FrameLen(buf))

\* a buffer that restarts empty after each frame
AfterFrame_cleared(buf) == <<>>

\* a receive that leaves a frame whose body does not decode in the buffer
AfterFrame_keeps_failed(buf) ==
    IF decode(Slice(buf, 4, 4 + FrameLen(buf))).kind = "Err" THEN buf
    ELSE Drop(buf, 4 + FrameLen(buf))

\* what advance(4) and split_to(len) leave in read_buf
AfterFrame(buf) == Drop(buf, 4 + FrameLen(buf))

\* receive() is called
RecvCall ==
    /\ r_pc = "idle"
    /\ Len(received) < MaxRecvs
    /\ r_pc' = "running"
    /\ split' = FALSE
    /\ UNCHANGED <<read_buf, carried, received>>
    /\ UNCHANGED sendVars
    /\ UNCHANGED offTransport

\* inner.read_buf(&mut self.read_buf) delivers n >= 1 bytes; `continue`
RecvRead ==
    /\ r_pc = "running"
    /\ NeedMore(read_buf)
    /\ inner # <<>>
    /\ \E n \in 1..Len(inner) :
          /\ read_buf' = read_buf \o Take(inner, n)
          /\ inner' = Drop(inner, n)
    /\ split' = (split \/ (NeedMore(read_buf') /\ Len(read_buf') \in 1..3))
    /\ UNCHANGED <<r_pc, carried, received>>
    /\ UNCHANGED <<s_pc, write_buf, sent, send_results, wire, flushed, io_errors, injected,
                   closed, stalled>>
    /\ UNCHANGED offTransport

\* inner.read_buf fails: `?` returns the error, read_buf keeps its bytes
RecvReadErr ==
    /\ r_pc = "running"
    /\ NeedMore(read_buf)
    /\ io_errors < MaxIoErrors
    /\ io_errors' = io_errors + 1
    /\ received' = Append(received, Err("IoError", "read"))
    /\ r_pc' = "idle"
    /\ UNCHANGED <<read_buf, split, carried>>
    /\ UNCHANGED <<s_pc, write_buf, sent, send_results, wire, flushed, inner, injected,
                   closed, stalled>>
    /\ UNCHANGED offTransport

\* a zero-byte read reported as a failed read
ConnectionClosed_io == Err("IoError", "read")

\* `if n == 0 { return Err(InvalidFormat("Connection closed")) }`, the same
\* in both read branches
ConnectionClosed == Err("InvalidFormat", "Connection closed")

\* inner.read_buf returns 0: the peer closed and nothing is left to read
RecvEof ==
    /\ r_pc = "running"
    /\ NeedMore(read_buf)
    /\ inner = <<>>
    /\ closed
    /\ received' = Append(received, ConnectionClosed)
    /\ r_pc' = "idle"
    /\ UNCHANGED <<read_buf, split, carried>>
    /\ UNCHANGED sendVars
    /\ UNCHANGED offTransport

\* a complete frame is buffered: advance(4), split_to(len), Message::decode;
\* split_to panics when len exceeds what is left, and a panic of decode
\* aborts the receiving task
RecvFrame ==
    /\ r_pc = "running"
    /\ ~NeedMore(read_buf)
    /\ LET fits   == SliceInRange(read_buf, 4, 4 + FrameLen(read_buf))
           result == IF fits THEN decode(FrameBody(read_buf))
                     ELSE Panic("split_to out of bounds")
       IN  /\ received' = Append(received, result)
           /\ read_buf' = IF fits THEN AfterFrame(read_buf) ELSE Drop(read_buf, 4)
           /\ r_pc' = IF result.kind = "Panic" THEN "panicked" ELSE "idle"
    /\ carried' = (carried \/ read_buf' # <<>>)
    /\ UNCHANGED split
    /\ UNCHANGED sendVars
    /\ UNCHANGED offTransport

---------------------------------------------------------------------------
(* compression.rs: zstd is represented by a run-length coder with a frame  *)
(* header, which like zstd is deterministic, lengthens short or irregular  *)
(* input and shortens repetitive input                                     *)

\* the header zstd::Encoder writes ahead of the blocks
ZstdHeader == <<40>>

\* the length of the run of equal bytes at the head of a non-empty s
RECURSIVE RunLen(_)
RunLen(s) ==
    IF Len(s) = 1 THEN 1
    ELSE IF s[2] # s[1] THEN 1
    ELSE 1 + RunLen(Tail(s))

\* one (length, byte) block per run
RECURSIVE RleBlocks(_)
RleBlocks(s) ==
    IF s = <<>> THEN <<>>
    ELSE <<RunLen(s), s[1]>> \o RleBlocks(Drop(s, RunLen(s)))

\* compress(data): encoder.write_all(data), encoder.finish()
compress(data) == ZstdHeader \o RleBlocks(data)

\* a helper that also takes a compressed form of equal length
compress_if_beneficial_le(data) ==
    LET compressed == compress(data)
    IN  IF Len(compressed) <= Len(data) THEN compressed ELSE data

\* compress_if_beneficial(data)
compress_if_beneficial(data) ==
    LET compressed == compress(data)
    IN  IF Len(compressed) < Len(data) THEN compressed ELSE data

---------------------------------------------------------------------------
(* encryption.rs: AES-256-GCM is represented by a keystream added to the   *)
(* plaintext byte by byte and a 16-byte tag computed from the key, the     *)
(* nonce and the ciphertext                                                *)

\* `[0u8; 12]`, `data.len() < 12`, `split_at(12)`
NonceLen == 12
\* `key: &[u8; 32]`
KeyLen == 32
\* the authentication tag the cipher appends to the ciphertext
TagLen == 16

RECURSIVE SumSeq(_)
SumSeq(s) == IF s = <<>> THEN 0 ELSE s[1] + SumSeq(Tail(s))

RECURSIVE WeightedSum(_)
WeightedSum(s) ==
    IF s = <<>> THEN 0
    ELSE WeightedSum(SubSeq(s, 1, Len(s) - 1)) + Len(s) * s[Len(s)]

\* the i-th keystream byte under key k and the nonce
KeyStream(k, nonce, i) ==
    (k[((i - 1) % KeyLen) + 1] + nonce[((i - 1) % NonceLen) + 1] + i) % 256

\* the tag over key, nonce and ciphertext: a change of one byte of the
\* nonce or of the ciphertext, or another sampled key, changes the tag
Tag(k, nonce, ct) ==
    [i \in 1..TagLen |->
        CASE i = 1 -> SumSeq(ct) % 256
          [] i = 2 -> SumSeq(nonce) % 256
          [] i = 3 -> SumSeq(k) % 256
          [] i = 4 -> Len(ct) % 256
          [] OTHER -> (WeightedSum(ct) + i) % 256]

\* cipher.encrypt(nonce, data): ciphertext followed by the tag
aead_encrypt(k, nonce, data) ==
    LET ct == [i \in 1..Len(data) |-> (data[i] + KeyStream(k, nonce, i)) % 256]
    IN  ct \o Tag(k, nonce, ct)

\* cipher.decrypt(nonce, ciphertext): the tag is verified, then the
\* plaintext is returned
aead_decrypt(k, nonce, sealed) ==
    IF Len(sealed) < TagLen THEN Err("EncryptionError", "aead::Error")
    ELSE LET ct  == Take(sealed, Len(sealed) - TagLen)
             tag == Drop(sealed, Len(sealed) - TagLen)
         IN  IF tag # Tag(k, nonce, ct) THEN Err("EncryptionError", "aead::Error")
             ELSE Ok([i \in 1..Len(ct) |-> (ct[i] + 256 - KeyStream(k, nonce, i)) % 256])

\* an encrypt that returns the ciphertext without the nonce
encrypt_no_nonce(k, nonce, data) == aead_encrypt(k, nonce, data)

\* an encrypt that writes the drawn nonce ahead of the output but runs the
\* cipher with a constant nonce
encrypt_prefix_only(k, nonce, data) ==
    nonce \o aead_encrypt(k, [i \in 1..NonceLen |-> 0], data)

\* Encryptor::encrypt with the nonce the generator produced: nonce bytes,
\* then the cipher's output
encrypt(k, nonce, data) == nonce \o aead_encrypt(k, nonce, data)

\* a decrypt that does not take the nonce from the input
decrypt_zero_nonce(k, data) ==
    IF Len(data) < NonceLen THEN Err("EncryptionError", "Data too short")
    ELSE aead_decrypt(k, [i \in 1..NonceLen |-> 0], Drop(data, NonceLen))

\* a decrypt that reports short input as a format error
decrypt_invalid_format(k, data) ==
    IF Len(data) < NonceLen THEN Err("InvalidFormat", "Data too short")
    ELSE aead_decrypt(k, Take(data, NonceLen), Drop(data, NonceLen))

\* Encryptor::decrypt
decrypt(k, data) ==
    IF Len(data) < NonceLen THEN Err("EncryptionError", "Data too short")
    ELSE aead_decrypt(k, Take(data, NonceLen), Drop(data, NonceLen))

\* inputs of the pipeline: every byte string of up to MaxData bytes over two
\* byte values
DataSamples == SeqsUpTo({0, 7}, MaxData)

\* keys as generate_key may return them
KeySamples == {[i \in 1..KeyLen |-> 1], [i \in 1..KeyLen |-> i]}

\* nonces as the random generator may fill them
NonceSamples == {[i \in 1..NonceLen |-> 0], [i \in 1..NonceLen |-> 16 * i]}

\* how much a tampering peer adds (mod 256) to the byte it changes
TamperDeltas == {1, 128, 255}

\* byte strings that no encrypt call produced: shorter than a nonce, a nonce
\* and nothing else, shorter than nonce and tag, and longer
ForgedSamples ==
    {[i \in 1..n |-> b] : n \in {0, 3, 11, 12, 20, 28, 30}, b \in {0, 1}}

\* buf with the byte at 0-based position pos replaced by another value
Tampered(buf, pos, delta) ==
    [buf EXCEPT ![pos + 1] = (buf[pos + 1] + delta) % 256]

PipeInit ==
    /\ p_pc = "new"
    /\ p_data \in DataSamples
    /\ p_key \in KeySamples
    /\ p_nonce = <<>>
    /\ p_out = <<>>
    /\ p_dec = <<>>
    /\ p_log = <<>>
    /\ p_in = <<>>
    /\ p_dkey = p_key
    /\ p_case = "none"

\* the pipeline harness at rest, while another component runs
PipeIdle ==
    /\ p_pc = "new"
    /\ p_data = <<>>
    /\ p_key = [i \in 1..KeyLen |-> 1]
    /\ p_nonce = <<>>
    /\ p_out = <<>>
    /\ p_dec = <<>>
    /\ p_log = <<>>
    /\ p_in = <<>>
    /\ p_dkey = p_key
    /\ p_case = "none"

\* compress_if_beneficial(p_data)
PipeCompress ==
    /\ p_pc = "new"
    /\ p_out' = compress_if_beneficial(p_data)
    /\ p_pc' = "compressed"
    /\ UNCHANGED <<p_data, p_key, p_nonce, p_dec, p_log, p_in, p_dkey, p_case>>
    /\ UNCHANGED offPipeline

\* rng.fill(&mut nonce_bytes): what the generator may return in a call that
\* follows the calls of log; thread_rng keeps no record of what it returned
NextNonce(log) == NonceSamples

\* Encryptor::new(&p_key).encrypt(p_data), the first call or a further one
\* on the same Encryptor
PipeEncrypt ==
    /\ p_pc \in {"new", "encrypted"}
    /\ Len(p_log) < MaxEncrypts
    /\ \E nonce \in NextNonce(p_log) :
          /\ p_nonce' = nonce
          /\ p_out' = encrypt(p_key, nonce, p_data)
          /\ p_log' = Append(p_log, [nonce |-> nonce,
                                     out |-> encrypt(p_key, nonce, p_data)])
    /\ p_pc' = "encrypted"
    /\ UNCHANGED <<p_data, p_key, p_dec, p_in, p_dkey, p_case>>
    /\ UNCHANGED offPipeline

\* Encryptor::new(&p_key).decrypt(p_out)
PipeDecrypt ==
    /\ p_pc = "encrypted"
    /\ p_dec' = <<decrypt(p_key, p_out)>>
    /\ p_pc' = "decrypted"
    /\ UNCHANGED <<p_data, p_key, p_nonce, p_out, p_log, p_in, p_dkey, p_case>>
    /\ UNCHANGED offPipeline

\* somebody changes one byte of the encrypted output before it is decrypted
\* (`tampered[12] ^= 1` in test_encryption_tamper_detection, any position)
PipeTamper ==
    /\ p_pc = "encrypted"
    /\ \E pos \in 0..(Len(p_out) - 1), delta \in TamperDeltas :
          p_in' = Tampered(p_out, pos, delta)
    /\ p_case' = "tampered"
    /\ p_pc' = "foreign"
    /\ UNCHANGED <<p_data, p_key, p_nonce, p_out, p_dec, p_log, p_dkey>>
    /\ UNCHANGED offPipeline

\* the encrypted output is handed to an Encryptor made with another key
PipeOtherKey ==
    /\ p_pc = "encrypted"
    /\ p_in' = p_out
    /\ p_dkey' \in KeySamples \ {p_key}
    /\ p_case' = "rekeyed"
    /\ p_pc' = "foreign"
    /\ UNCHANGED <<p_data, p_key, p_nonce, p_out, p_dec, p_log>>
    /\ UNCHANGED offPipeline

\* bytes that no encrypt call produced are handed to decrypt
\* (`decrypt(&[1, 2, 3])` in test_decryption_invalid_data)
PipeForge ==
    /\ p_pc = "new"
    /\ p_in' \in ForgedSamples
    /\ p_case' = "forged"
    /\ p_pc' = "foreign"
    /\ UNCHANGED <<p_data, p_key, p_nonce, p_out, p_dec, p_log, p_dkey>>
    /\ UNCHANGED offPipeline

\* Encryptor::new(&p_dkey).decrypt(p_in)
PipeDecryptForeign ==
    /\ p_pc = "foreign"
    /\ p_dec' = <<decrypt(p_dkey, p_in)>>
    /\ p_pc' = "answered"
    /\ UNCHANGED <<p_data, p_key, p_nonce, p_out, p_log, p_in, p_dkey, p_case>>
    /\ UNCHANGED offPipeline

PipeNext ==
    \/ PipeCompress
    \/ PipeEncrypt
    \/ PipeDecrypt
    \/ PipeTamper
    \/ PipeOtherKey
    \/ PipeForge
    \/ PipeDecryptForeign

---------------------------------------------------------------------------
(* stream.rs: MessageStream over a bounded tokio mpsc channel *)

\* the message types stream.rs and client.rs name next to those of lib.rs
StreamMessageType == MessageType \cup {"Stream", "StreamEnd"}

\* Poll<Option<Result<Message, ProtocolError>>>
ReadySome(m) == [kind |-> "Some", val |-> <<m>>]
ReadyNone == [kind |-> "None", val |-> <<>>]
Pending == [kind |-> "Pending", val |-> <<>>]

\* a poll_next that asks the channel whatever `closed` says
poll_next_unlatched(is_closed, queue, tx) ==
    IF queue # <<>>
    THEN [item |-> ReadySome(Head(queue)),
          closed |-> (is_closed \/ Head(queue).msg_type = "StreamEnd"),
          queue |-> Tail(queue)]
    ELSE IF ~tx THEN [item |-> ReadyNone, closed |-> TRUE, queue |-> queue]
    ELSE [item |-> Pending, closed |-> is_closed, queue |-> queue]

\* MessageStream::poll_next: the item returned, and closed and the channel
\* afterwards; rx.poll_recv yields the oldest message, None once the channel
\* is empty and every Sender is dropped, and is Pending otherwise
poll_next(is_closed, queue, tx) ==
    IF is_closed THEN [item |-> ReadyNone, closed |-> TRUE, queue |-> queue]
    ELSE IF queue # <<>>
    THEN [item |-> ReadySome(Head(queue)),
          closed |-> (Head(queue).msg_type = "StreamEnd"),
          queue |-> Tail(queue)]
    ELSE IF ~tx THEN [item |-> ReadyNone, closed |-> TRUE, queue |-> queue]
    ELSE [item |-> Pending, closed |-> FALSE, queue |-> queue]

\* a channel that always has a permit
HasPermit_unbounded(queue, cap) == TRUE

\* mpsc::channel(capacity): a send gets a permit while fewer than capacity
\* messages are queued
HasPermit(queue, cap) == Len(queue) < cap

\* stream_id as rand::random() may return it
StreamIdSamples == {7, 9}

\* what a producer pushes: two events and the end marker, with the field
\* values of Message::new
StreamMessages(id) ==
    {Msg("Event", NONE, <<0>>, 0, id, 0, 30000),
     Msg("Event", NONE, <<255>>, 0, id, 0, 30000),
     Msg("StreamEnd", NONE, <<>>, 0, id, 0, 30000)}

\* MessageStream::new(StreamCap)
StreamInit ==
    /\ st_cap = StreamCap
    /\ st_id \in StreamIdSamples
    /\ st_closed = FALSE
    /\ st_queue = <<>>
    /\ st_tx = TRUE
    /\ st_blocked = <<>>
    /\ st_pushed = <<>>
    /\ st_pulled = <<>>

\* no stream was made, while another component runs
StreamIdle ==
    /\ st_cap = StreamCap
    /\ st_id = 0
    /\ st_closed = FALSE
    /\ st_queue = <<>>
    /\ st_tx = FALSE
    /\ st_blocked = <<>>
    /\ st_pushed = <<>>
    /\ st_pulled = <<>>

\* tx.send(m).await: m is queued at once when a permit is free, else the
\* send suspends
StreamSend ==
    /\ st_tx
    /\ st_blocked = <<>>
    /\ Len(st_pushed) < MaxPushes
    /\ \E m \in StreamMessages(st_id) :
          /\ st_pushed' = Append(st_pushed, m)
          /\ IF HasPermit(st_queue, st_cap)
             THEN st_queue' = Append(st_queue, m) /\ st_blocked' = st_blocked
             ELSE st_queue' = st_queue /\ st_blocked' = <<m>>
    /\ UNCHANGED <<st_cap, st_id, st_closed, st_tx, st_pulled>>
    /\ UNCHANGED offStream

\* the suspended send is woken and completes
StreamSendResume ==
    /\ st_blocked # <<>>
    /\ HasPermit(st_queue, st_cap)
    /\ st_queue' = Append(st_queue, st_blocked[1])
    /\ st_blocked' = <<>>
    /\ UNCHANGED <<st_cap, st_id, st_closed, st_tx, st_pushed, st_pulled>>
    /\ UNCHANGED offStream

\* the producer drops its Sender
StreamDropSender ==
    /\ st_tx
    /\ st_blocked = <<>>
    /\ st_tx' = FALSE
    /\ UNCHANGED <<st_cap, st_id, st_closed, st_queue, st_blocked, st_pushed, st_pulled>>
    /\ UNCHANGED offStream

\* the consumer polls the stream once
StreamPull ==
    /\ Len(st_pulled) < MaxPulls
    /\ LET r == poll_next(st_closed, st_queue, st_tx)
       IN  /\ st_pulled' = Append(st_pulled, r.item)
           /\ st_closed' = r.closed
           /\ st_queue' = r.queue
    /\ UNCHANGED <<st_cap, st_id, st_tx, st_blocked, st_pushed>>
    /\ UNCHANGED offStream

StreamNext ==
    \/ StreamSend
    \/ StreamSendResume
    \/ StreamDropSender
    \/ StreamPull

---------------------------------------------------------------------------
(* client.rs: RemusClient over its Transport (write_buf, read_buf), and a  *)
(* server that reads what the client wrote and writes frames back          *)

\* `MessageStream::new(32)`
ClientStreamCapacity == 32

\* MessageFlags::STREAM_END, named by client.rs; lib.rs defines no such
\* flag, and 0x80 is the one bit of the flags byte it leaves free
STREAM_END == 128

\* the type bytes of the variants client.rs and stream.rs name and lib.rs
\* lacks, as variants declared after Error would be numbered
StreamTypeByte(t) ==
    CASE t = "Stream" -> 4
      [] t = "StreamEnd" -> 5

\* Message::encode of a message of such a type
encode_stream(m) ==
    <<StreamTypeByte(m.msg_type)>> \o Drop(encode([m EXCEPT !.msg_type = "Request"]), 1)

\* what Transport::send appends to write_buf for a message of the client
ClientFrame(m) ==
    LET body == IF m.msg_type \in MessageType THEN encode(m) ELSE encode_stream(m)
    IN  to_be_bytes(Len(body), 4) \o body

\* Message::new: timestamp from the clock, priority 0, ttl 30000, no
\* routing_info and no context
Message_new(msg_type, flags, request_id, payload, now) ==
    Msg(msg_type, flags, payload, now, request_id, 0, 30000)

\* a pipeline that encrypts first and compresses the ciphertext
prepare_payload_encrypt_first(key, nonce, data) ==
    IF key # <<>> THEN compress_if_beneficial(encrypt(key[1], nonce, data))
    ELSE compress_if_beneficial(data)

\* RemusClient::prepare_payload: compress_if_beneficial, then encrypt when
\* an encryptor is configured
prepare_payload(key, nonce, data) ==
    LET compressed == compress_if_beneficial(data)
    IN  IF key # <<>> THEN encrypt(key[1], nonce, compressed) ELSE compressed

\* the message request() builds
request_message(request_id, payload, now) ==
    Message_new("Request", IDEMPOTENT, request_id, payload, now)

\* a stream() that draws a fresh request_id of its own
stream_message_own_id(stream_id, payload, now) ==
    Message_new("Stream", STREAM_END, stream_id + 1, payload, now)

\* the message stream() builds
stream_message(stream_id, payload, now) ==
    Message_new("Stream", STREAM_END, stream_id, payload, now)

\* a request() that decrypts the response when it has a key
response_payload_decrypted(key, response) ==
    IF key = <<>> THEN Ok(response.payload) ELSE decrypt(key[1], response.payload)

\* a request() that accepts a Response only
response_payload_checked(key, response) ==
    IF response.msg_type = "Response" THEN Ok(response.payload)
    ELSE Err("InvalidFormat", "Unexpected message")

\* `Ok(response.payload)`
response_payload(key, response) == Ok(response.payload)

\* a receive whose buffer dies with the cancelled call
cancelled_receive_discards(buf) == <<>>

\* read_buf when the timeout drops the receive future: the buffer is a
\* field of the Transport and keeps what the reads of the call appended
cancelled_receive(buf) == buf

\* payloads handed to request and stream: an incompressible and a
\* compressible one
ClientPayloads == {<<7>>, <<0, 0, 0, 0>>}

\* stream_id as rand::random() may return it inside stream()
ClientStreamIds == {7}

\* where the server's endpoint may cut a frame in two: inside the length
\* prefix, inside the body, or not at all
ServerCuts(frame) == {2, 20, Len(frame)}

\* request_id as rand::random() may return it
RequestIdSamples == {5}

\* the clock read by Message::new, in microseconds
ClockSamples == {1000}

\* the key a client is given with with_encryption
ClientKey == [i \in 1..KeyLen |-> 1]

\* the nonce the random generator produces inside a call of the client
ClientNonces == {[i \in 1..NonceLen |-> 0]}

\* what the server writes back: an event in the clear, and a response whose
\* payload was compressed and then encrypted under the client's key
ServerMessages ==
    {Msg("Event", NONE, <<9>>, 0, 1, 0, 30000),
     Msg("Response", ENCRYPTED + COMPRESSED,
         encrypt(ClientKey, [i \in 1..NonceLen |-> 16 * i], compress(<<0, 0, 0, 0>>)),
         0, 99, 0, 30000)}

\* RemusClient::connect, then with_encryption or not
ClientInit ==
    /\ q_pc = "idle"
    /\ q_key \in {<<>>, <<ClientKey>>}
    /\ q_calls = <<>>
    /\ q_results = <<>>
    /\ back = <<>>
    /\ srv_msgs = <<>>
    /\ srv_out = <<>>
    /\ srv_closed = FALSE

\* no client, while another component runs
ClientIdle ==
    /\ q_pc = "idle"
    /\ q_key = <<>>
    /\ q_calls = <<>>
    /\ q_results = <<>>
    /\ back = <<>>
    /\ srv_msgs = <<>>
    /\ srv_out = <<>>
    /\ srv_closed = FALSE

\* `.map_err(|_| ProtocolError::InvalidFormat("Request timeout".into()))`
RequestTimeout == Err("InvalidFormat", "Request timeout")

\* request(payload) up to the first write of transport.send: the payload is
\* prepared, the message built and its frame appended to write_buf
ClientRequest ==
    /\ q_pc = "idle"
    /\ Len(q_calls) < MaxCalls
    /\ \E payload \in ClientPayloads, nonce \in ClientNonces,
          id \in RequestIdSamples, now \in ClockSamples :
          LET request == request_message(id, prepare_payload(q_key, nonce, payload), now)
          IN  /\ write_buf' = write_buf \o ClientFrame(request)
              /\ sent' = Append(sent, request)
              /\ q_calls' = Append(q_calls, [op |-> "request", payload |-> payload,
                                             nonce |-> nonce, id |-> id, now |-> now])
    /\ s_pc' = "writing"
    /\ stalled' = FALSE
    /\ q_pc' = "sending"
    /\ UNCHANGED <<send_results, wire, flushed, inner, io_errors, injected, closed>>
    /\ UNCHANGED recvVars
    /\ UNCHANGED streamVars
    /\ UNCHANGED <<q_key, q_results, back, srv_msgs, srv_out, srv_closed>>
    /\ UNCHANGED offClient

\* stream(payload) up to the first write of transport.send: the payload is
\* prepared, MessageStream::new(32) makes the channel and the stream, the
\* message is built with the stream's id and its frame appended to write_buf
ClientStream ==
    /\ q_pc = "idle"
    /\ Len(q_calls) < MaxCalls
    /\ \E payload \in ClientPayloads, nonce \in ClientNonces,
          id \in ClientStreamIds, now \in ClockSamples :
          LET request == stream_message(id, prepare_payload(q_key, nonce, payload), now)
          IN  /\ write_buf' = write_buf \o ClientFrame(request)
              /\ sent' = Append(sent, request)
              /\ q_calls' = Append(q_calls, [op |-> "stream", payload |-> payload,
                                             nonce |-> nonce, id |-> id, now |-> now])
              /\ st_id' = id
    /\ st_cap' = ClientStreamCapacity
    /\ st_closed' = FALSE
    /\ st_queue' = <<>>
    /\ st_tx' = TRUE
    /\ s_pc' = "writing"
    /\ stalled' = FALSE
    /\ q_pc' = "streaming"
    /\ UNCHANGED <<st_blocked, st_pushed, st_pulled>>
    /\ UNCHANGED <<send_results, wire, flushed, inner, io_errors, injected, closed>>
    /\ UNCHANGED recvVars
    /\ UNCHANGED <<q_key, q_results, back, srv_msgs, srv_out, srv_closed>>
    /\ UNCHANGED offClient

\* request: `self.transport.send(request).await?` has returned; an error
\* ends the call, Ok goes on to the receive under the timeout
RequestSent ==
    /\ q_pc = "sending"
    /\ s_pc = "idle"
    /\ LET r == send_results[Len(send_results)]
       IN  IF r.kind = "Ok"
           THEN q_pc' = "receiving" /\ q_results' = q_results
           ELSE q_pc' = "idle" /\ q_results' = Append(q_results, r)
    /\ UNCHANGED sendVars
    /\ UNCHANGED recvVars
    /\ UNCHANGED streamVars
    /\ UNCHANGED <<q_key, q_calls, back, srv_msgs, srv_out, srv_closed>>
    /\ UNCHANGED offClient

\* stream: `self.transport.send(request).await?` has returned; Ok(stream) is
\* returned on success, and tx goes out of scope either way
StreamSent ==
    /\ q_pc = "streaming"
    /\ s_pc = "idle"
    /\ LET r == send_results[Len(send_results)]
       IN  q_results' = Append(q_results,
                               IF r.kind = "Ok" THEN Ok([stream_id |-> st_id]) ELSE r)
    /\ q_pc' = "idle"
    /\ st_tx' = FALSE
    /\ UNCHANGED <<st_cap, st_id, st_closed, st_queue, st_blocked, st_pushed, st_pulled>>
    /\ UNCHANGED sendVars
    /\ UNCHANGED recvVars
    /\ UNCHANGED <<q_key, q_calls, back, srv_msgs, srv_out, srv_closed>>
    /\ UNCHANGED offClient

\* the receive inside request reads the bytes that have arrived; `continue`
ClientRecvRead ==
    /\ q_pc = "receiving"
    /\ NeedMore(read_buf)
    /\ back # <<>>
    /\ read_buf' = read_buf \o back
    /\ back' = <<>>
    /\ UNCHANGED <<r_pc, split, carried, received>>
    /\ UNCHANGED sendVars
    /\ UNCHANGED streamVars
    /\ UNCHANGED <<q_pc, q_key, q_calls, q_results, srv_msgs, srv_out, srv_closed>>
    /\ UNCHANGED offClient

\* the receive inside request reads 0 bytes: `??` returns its error
ClientRecvEof ==
    /\ q_pc = "receiving"
    /\ NeedMore(read_buf)
    /\ back = <<>>
    /\ srv_closed
    /\ q_results' = Append(q_results, ConnectionClosed)
    /\ q_pc' = "idle"
    /\ UNCHANGED recvVars
    /\ UNCHANGED sendVars
    /\ UNCHANGED streamVars
    /\ UNCHANGED <<q_key, q_calls, back, srv_msgs, srv_out, srv_closed>>
    /\ UNCHANGED offClient

\* the receive inside request finds a complete frame: advance(4),
\* split_to(len), Message::decode; `??` returns an error of decode, and
\* request returns the payload of a decoded message
ClientRecvFrame ==
    /\ q_pc = "receiving"
    /\ ~NeedMore(read_buf)
    /\ LET fits   == SliceInRange(read_buf, 4, 4 + FrameLen(read_buf))
           result == IF fits THEN decode(FrameBody(read_buf))
                     ELSE Panic("split_to out of bounds")
       IN  /\ q_results' = Append(q_results,
                                  IF result.kind = "Ok"
                                  THEN response_payload(q_key, result.val[1])
                                  ELSE result)
           /\ read_buf' = IF fits THEN AfterFrame(read_buf) ELSE Drop(read_buf, 4)
           /\ q_pc' = IF result.kind = "Panic" THEN "panicked" ELSE "idle"
    /\ UNCHANGED <<r_pc, split, carried, received>>
    /\ UNCHANGED sendVars
    /\ UNCHANGED streamVars
    /\ UNCHANGED <<q_key, q_calls, back, srv_msgs, srv_out, srv_closed>>
    /\ UNCHANGED offClient

\* request_timeout elapses while the receive waits for bytes: the receive
\* future is dropped and request returns the timeout error
ClientTimeout ==
    /\ q_pc = "receiving"
    /\ NeedMore(read_buf)
    /\ back = <<>>
    /\ ~srv_closed
    /\ q_results' = Append(q_results, RequestTimeout)
    /\ read_buf' = cancelled_receive(read_buf)
    /\ q_pc' = "idle"
    /\ UNCHANGED <<r_pc, split, carried, received>>
    /\ UNCHANGED sendVars
    /\ UNCHANGED streamVars
    /\ UNCHANGED <<q_key, q_calls, back, srv_msgs, srv_out, srv_closed>>
    /\ UNCHANGED offClient

\* the server reads what the client's endpoint holds
ServerRead ==
    /\ inner # <<>>
    /\ inner' = <<>>
    /\ UNCHANGED <<s_pc, write_buf, sent, send_results, wire, flushed, io_errors, injected,
                   closed, stalled>>
    /\ UNCHANGED recvVars
    /\ UNCHANGED streamVars
    /\ UNCHANGED clientVars
    /\ UNCHANGED offClient

\* the server has read every frame of the client and starts to write a
\* frame for one it has not answered yet
ServerReply ==
    /\ s_pc = "idle"
    /\ write_buf = <<>>
    /\ inner = <<>>
    /\ srv_out = <<>>
    /\ ~srv_closed
    /\ Len(srv_msgs) < Len(sent)
    /\ \E m \in ServerMessages :
          /\ srv_msgs' = Append(srv_msgs, m)
          /\ srv_out' = Frame(m)
    /\ UNCHANGED sendVars
    /\ UNCHANGED recvVars
    /\ UNCHANGED streamVars
    /\ UNCHANGED <<q_pc, q_key, q_calls, q_results, back, srv_closed>>
    /\ UNCHANGED offClient

\* the server's endpoint sends the frame on, whole or cut in two
ServerWrite ==
    /\ srv_out # <<>>
    /\ LET whole == srv_out = Frame(srv_msgs[Len(srv_msgs)])
       IN  \E n \in (IF whole THEN ServerCuts(srv_out) ELSE {Len(srv_out)}) :
              /\ back' = back \o Take(srv_out, n)
              /\ srv_out' = Drop(srv_out, n)
    /\ UNCHANGED sendVars
    /\ UNCHANGED recvVars
    /\ UNCHANGED streamVars
    /\ UNCHANGED <<q_pc, q_key, q_calls, q_results, srv_msgs, srv_closed>>
    /\ UNCHANGED offClient

\* the server shuts down its writing half between two frames; the client
\* can tell only while it reads
ServerShutdown ==
    /\ q_pc = "receiving"
    /\ srv_out = <<>>
    /\ ~srv_closed
    /\ srv_closed' = TRUE
    /\ UNCHANGED sendVars
    /\ UNCHANGED recvVars
    /\ UNCHANGED streamVars
    /\ UNCHANGED <<q_pc, q_key, q_calls, q_results, back, srv_msgs, srv_out>>
    /\ UNCHANGED offClient

\* stream() has returned Ok(stream) and the caller holds the MessageStream
StreamReturned ==
    /\ q_pc = "idle"
    /\ q_results # <<>>
    /\ q_calls[Len(q_results)].op = "stream"
    /\ q_results[Len(q_results)].kind = "Ok"

\* the caller polls the MessageStream that stream() returned; the Sender
\* made by MessageStream::new(32) was a local of stream() and no clone of
\* it was handed out, so no task can push
ConsumerPull ==
    /\ StreamReturned
    /\ StreamPull

---------------------------------------------------------------------------
(* discovery.rs: ServiceRegistry.  Times are whole ticks of the system     *)
(* clock; a ServiceInfo is its id, its health_status, its last_seen and    *)
(* the remaining fields, which no operation of the registry reads, as one  *)
(* name                                                                    *)

HealthStatus == {"Healthy", "Degraded", "Unhealthy", "Unknown"}

ServiceIds == {"a", "b"}

\* `Duration::from_secs(30)` in RemusClient::connect
ClientRegistryTtl == 30

\* the ttl a caller passes to ServiceRegistry::new
TtlSamples == {0, 1, 2}

ServiceInfo(id, last_seen, health) ==
    [id |-> id, name |-> "test_service", last_seen |-> last_seen,
     health_status |-> health]

\* HashMap::new()
NoServices == [id \in {} |-> id]

\* the map restricted to the ids in keep
Restrict(services, keep) == [id \in keep |-> services[id]]

\* services.insert(id, info)
Insert(services, id, info) ==
    [i \in DOMAIN services \cup {id} |-> IF i = id THEN info ELSE services[i]]

\* every order in which a HashMap may hand out the values in S
Orderings(S) ==
    {seq \in [1..Cardinality(S) -> S] : {seq[i] : i \in 1..Cardinality(S)} = S}

\* a retain predicate that keeps an entry whose age equals the ttl
retained_le(info, now, ttl) ==
    IF now < info.last_seen THEN FALSE ELSE now - info.last_seen <= ttl

\* the closure of cleanup_expired: last_seen.elapsed() is an error when
\* last_seen is later than now
retained(info, now, ttl) ==
    IF now < info.last_seen THEN FALSE ELSE now - info.last_seen < ttl

\* cleanup_expired: services.retain(..)
cleanup_expired(services, now, ttl) ==
    Restrict(services, {id \in DOMAIN services : retained(services[id], now, ttl)})

\* an update_health that registers an unknown id
update_health_upsert(services, id, status, now) ==
    [services |-> Insert(services, id, ServiceInfo(id, now, status)),
     ret |-> Ok(<<>>)]

\* update_health: the registry afterwards and the value returned
update_health(services, id, status, now) ==
    IF id \in DOMAIN services
    THEN [services |-> [services EXCEPT ![id].health_status = status,
                                        ![id].last_seen = now],
          ret |-> Ok(<<>>)]
    ELSE [services |-> services,
          ret |-> Err("InvalidFormat", "Service not found")]

\* get_service: Some(info) as <<info>>, None as <<>>
get_service(services, id) ==
    IF id \in DOMAIN services THEN <<services[id]>> ELSE <<>>

\* a query that also lets Degraded services through
get_healthy_services_lenient(services) ==
    Orderings({services[id] : id \in
        {i \in DOMAIN services :
            services[i].health_status \in {"Healthy", "Degraded"}}})

\* get_healthy_services: query(|s| s.health_status == Healthy), in any of
\* the orders the map may iterate in
get_healthy_services(services) ==
    Orderings({services[id] : id \in
        {i \in DOMAIN services : services[i].health_status = "Healthy"}})

\* a discover_services that fails on an empty registry
discover_services_nonempty(services) ==
    IF DOMAIN services = {} THEN {Err("InvalidFormat", "Service not found")}
    ELSE {Ok(v) : v \in get_healthy_services(services)}

\* RemusClient::discover_services: Ok(get_healthy_services())
discover_services(services) ==
    {Ok(v) : v \in get_healthy_services(services)}

\* the record of a call: "" and "None" where it takes no id or no status
Call(op, id, status, ret) ==
    [op |-> op, id |-> id, status |-> status, ret |-> ret,
     pre |-> g_services, at |-> g_now]

NoCall ==
    [op |-> "new", id |-> "", status |-> "None", ret |-> <<>>,
     pre |-> NoServices, at |-> 0]

RegInit ==
    /\ \/ g_owner = "caller" /\ g_ttl \in TtlSamples
       \/ g_owner = "client" /\ g_ttl = ClientRegistryTtl
    /\ g_now = 0
    /\ g_services = NoServices
    /\ g_last = NoCall

\* the registry at rest, while another component runs
RegIdle ==
    /\ g_owner = "caller"
    /\ g_ttl = 1
    /\ g_now = 0
    /\ g_services = NoServices
    /\ g_last = NoCall

\* the system clock advances
RegTick ==
    /\ g_now < MaxClock
    /\ g_now' = g_now + 1
    /\ UNCHANGED <<g_owner, g_ttl, g_services, g_last>>
    /\ UNCHANGED offRegistry

\* register(info): last_seen and health_status are whatever the caller put
\* into info
RegRegister ==
    /\ g_owner = "caller"
    /\ \E id \in ServiceIds, seen \in 0..MaxClock, health \in HealthStatus :
          /\ g_services' = Insert(g_services, id, ServiceInfo(id, seen, health))
          /\ g_last' = Call("register", id, health, <<>>)
    /\ UNCHANGED <<g_owner, g_ttl, g_now>>
    /\ UNCHANGED offRegistry

\* unregister(id)
RegUnregister ==
    /\ g_owner = "caller"
    /\ \E id \in ServiceIds :
          /\ g_services' = Restrict(g_services, DOMAIN g_services \ {id})
          /\ g_last' = Call("unregister", id, "None", <<>>)
    /\ UNCHANGED <<g_owner, g_ttl, g_now>>
    /\ UNCHANGED offRegistry

\* get_service(id)
RegGetService ==
    /\ g_owner = "caller"
    /\ \E id \in ServiceIds :
          g_last' = Call("get_service", id, "None", get_service(g_services, id))
    /\ UNCHANGED <<g_owner, g_ttl, g_now, g_services>>
    /\ UNCHANGED offRegistry

\* cleanup_expired()
RegCleanup ==
    /\ g_owner = "caller"
    /\ g_services' = cleanup_expired(g_services, g_now, g_ttl)
    /\ g_last' = Call("cleanup_expired", "", "None", <<>>)
    /\ UNCHANGED <<g_owner, g_ttl, g_now>>
    /\ UNCHANGED offRegistry

\* update_health(id, status)
RegUpdateHealth ==
    /\ g_owner = "caller"
    /\ \E id \in ServiceIds, status \in HealthStatus :
          LET r == update_health(g_services, id, status, g_now)
          IN  /\ g_services' = r.services
              /\ g_last' = Call("update_health", id, status, r.ret)
    /\ UNCHANGED <<g_owner, g_ttl, g_now>>
    /\ UNCHANGED offRegistry

\* get_healthy_services()
RegGetHealthy ==
    /\ g_owner = "caller"
    /\ \E v \in get_healthy_services(g_services) :
          g_last' = Call("get_healthy_services", "", "None", v)
    /\ UNCHANGED <<g_owner, g_ttl, g_now, g_services>>
    /\ UNCHANGED offRegistry

\* RemusClient::discover_services(); the client has no operation that
\* registers, updates or removes a service
ClientDiscover ==
    /\ g_owner = "client"
    /\ \E r \in discover_services(g_services) :
          g_last' = Call("discover_services", "", "None", r)
    /\ UNCHANGED <<g_owner, g_ttl, g_now, g_services>>
    /\ UNCHANGED offRegistry

RegNext ==
    \/ RegTick
    \/ RegRegister
    \/ RegUnregister
    \/ RegGetService
    \/ RegCleanup
    \/ RegUpdateHealth
    \/ RegGetHealthy
    \/ ClientDiscover

---------------------------------------------------------------------------
(* state.rs: StateManager.  Both write locks are held from the first line  *)
(* of apply_delta and of clear_state to the last, so each call is one step; *)
(* SHA-256 is represented by a digest of length, sum and weighted sum      *)

StateKeys == {"k1", "k2"}

DeltaSamples == {<<1>>, <<2>>}

\* the max_versions a caller passes to StateManager::new
MaxVersionsSamples == {0, 1, 2}

\* `as_secs()` of the system clock
StateClock == 1700

ChecksumLen == 32

\* calculate_checksum(data)
calculate_checksum(data) ==
    [i \in 1..ChecksumLen |->
        CASE i = 1 -> Len(data) % 256
          [] i = 2 -> SumSeq(data) % 256
          [] i = 3 -> WeightedSum(data) % 256
          [] OTHER -> 0]

StateVersion(version, timestamp, checksum) ==
    [version |-> version, timestamp |-> timestamp, checksum |-> checksum]

\* HashMap::new()
NoState == [k \in {} |-> <<>>]

\* a merge that replaces the current value
merged_replace(state, key, delta) == delta

\* the new value of key: the current value with delta appended, or delta
merged(state, key, delta) ==
    IF key \in DOMAIN state THEN state[key] \o delta ELSE delta

\* a trim that drops the newest entry
trimmed_newest(versions, max_versions) ==
    IF Len(versions) > max_versions
    THEN SubSeq(versions, 1, Len(versions) - 1)
    ELSE versions

\* `if versions.len() > self.max_versions { versions.remove(0); }`
trimmed(versions, max_versions) ==
    IF Len(versions) > max_versions THEN Tail(versions) ELSE versions

\* apply_delta: the state and the versions afterwards and the version
\* returned
apply_delta(state, versions, max_versions, key, delta, now) ==
    LET new_state == merged(state, key, delta)
        version == StateVersion(Len(versions) + 1, now,
                                calculate_checksum(new_state))
    IN  [state |-> Insert(state, key, new_state),
         versions |-> trimmed(Append(versions, version), max_versions),
         ret |-> version]

\* get_state: Some(bytes) as <<bytes>>, None as <<>>
get_state(state, key) == IF key \in DOMAIN state THEN <<state[key]>> ELSE <<>>

\* validate_version
validate_version(versions, version) ==
    \E i \in 1..Len(versions) :
        /\ versions[i].version = version.version
        /\ versions[i].checksum = version.checksum

\* the record of a call: arg is <<delta>> or <<version>>, <<>> where the
\* call takes neither
StateCall(op, key, arg, ret) ==
    [op |-> op, key |-> key, arg |-> arg, ret |-> ret, pre |-> m_state,
     pre_versions |-> m_versions]

NoStateCall ==
    [op |-> "new", key |-> "", arg |-> <<>>, ret |-> <<>>, pre |-> NoState,
     pre_versions |-> <<>>]

StateInit ==
    /\ m_max \in MaxVersionsSamples
    /\ m_state = NoState
    /\ m_versions = <<>>
    /\ m_applied = <<>>
    /\ m_cleared = 0
    /\ m_clears = 0
    /\ m_last = NoStateCall

\* the state manager at rest, while another component runs
StateIdle ==
    /\ m_max = 1
    /\ m_state = NoState
    /\ m_versions = <<>>
    /\ m_applied = <<>>
    /\ m_cleared = 0
    /\ m_clears = 0
    /\ m_last = NoStateCall

\* apply_delta(key, delta)
StateApplyDelta ==
    /\ Len(m_applied) < MaxDeltas
    /\ \E key \in StateKeys, delta \in DeltaSamples :
          LET r == apply_delta(m_state, m_versions, m_max, key, delta, StateClock)
          IN  /\ m_state' = r.state
              /\ m_versions' = r.versions
              /\ m_applied' = Append(m_applied, [key |-> key, delta |-> delta,
                                                 version |-> r.ret])
              /\ m_last' = StateCall("apply_delta", key, <<delta>>, r.ret)
    /\ UNCHANGED <<m_max, m_cleared, m_clears>>
    /\ UNCHANGED offState

\* get_state(key)
StateGetState ==
    /\ \E key \in StateKeys :
          m_last' = StateCall("get_state", key, <<>>, get_state(m_state, key))
    /\ UNCHANGED <<m_max, m_state, m_versions, m_applied, m_cleared, m_clears>>
    /\ UNCHANGED offState

\* validate_version(version) of a version an earlier apply_delta returned
StateValidate ==
    /\ \E i \in 1..Len(m_applied) :
          m_last' = StateCall("validate_version", "", <<m_applied[i].version>>,
                              validate_version(m_versions, m_applied[i].version))
    /\ UNCHANGED <<m_max, m_state, m_versions, m_applied, m_cleared, m_clears>>
    /\ UNCHANGED offState

\* get_version_history()
StateGetHistory ==
    /\ m_last' = StateCall("get_version_history", "", <<>>, m_versions)
    /\ UNCHANGED <<m_max, m_state, m_versions, m_applied, m_cleared, m_clears>>
    /\ UNCHANGED offState

\* clear_state()
StateClear ==
    /\ m_clears < MaxClears
    /\ m_state' = NoState
    /\ m_versions' = <<>>
    /\ m_cleared' = Len(m_applied)
    /\ m_clears' = m_clears + 1
    /\ m_last' = StateCall("clear_state", "", <<>>, <<>>)
    /\ UNCHANGED <<m_max, m_applied>>
    /\ UNCHANGED offState

StateNext ==
    \/ StateApplyDelta
    \/ StateGetState
    \/ StateValidate
    \/ StateGetHistory
    \/ StateClear

---------------------------------------------------------------------------
(* state.rs: tasks that call one StateManager at the same time.  A call    *)
(* asks for its locks one at a time, may be queued on each, runs its body  *)
(* with the guards held, and drops the guards in reverse order of their    *)
(* declaration.  tokio's RwLock is fair: waiters are served in the order   *)
(* in which they asked, and a reader that asks while a writer waits queues *)
(* behind the writer                                                       *)

Workers == 1..MaxWorkers

\* RwLock::new(..): nobody holds the lock and nobody waits
Unlocked == [holders |-> {}, queue |-> <<>>]

\* a guard of the lock, or a place in its queue
Hold(t, mode) == [task |-> t, mode |-> mode]

\* a clear_state that takes the versions lock first
LockPlan_versions_first(op) ==
    CASE op = "apply_delta" -> <<<<"state", "write">>, <<"versions", "write">>>>
      [] op = "clear_state" -> <<<<"versions", "write">>, <<"state", "write">>>>
      [] op = "get_state" -> <<<<"state", "read">>>>
      [] OTHER -> <<<<"versions", "read">>>>

\* the locks a call asks for, in the order of its `.await`s: apply_delta
\* and clear_state state.write() then versions.write(), get_state
\* state.read(), validate_version and get_version_history versions.read()
LockPlan(op) ==
    CASE op = "apply_delta" -> <<<<"state", "write">>, <<"versions", "write">>>>
      [] op = "clear_state" -> <<<<"state", "write">>, <<"versions", "write">>>>
      [] op = "get_state" -> <<<<"state", "read">>>>
      [] OTHER -> <<<<"versions", "read">>>>

\* the lock can be given in this mode: a write guard needs the lock free, a
\* read guard needs it free of a write guard
CanGrant(lock, mode) ==
    IF mode = "write" THEN lock.holders = {}
    ELSE \A h \in lock.holders : h.mode = "read"

\* a version some apply_delta may have returned, handed to validate_version
VersionSamples == {StateVersion(1, StateClock, calculate_checksum(<<1>>))}

\* the call a task is in: arg is <<delta>> or <<version>>, pre the state
\* map its body found
LockCall(op, key, arg) == [op |-> op, key |-> key, arg |-> arg, pre |-> NoState]

NoLockCall == LockCall("none", "", <<>>)

\* the calls the tasks make: the five operations on one key
LockCalls ==
    {LockCall("apply_delta", "k1", <<<<1>>>>),
     LockCall("clear_state", "", <<>>),
     LockCall("get_state", "k1", <<>>),
     LockCall("get_version_history", "", <<>>)}
    \cup {LockCall("validate_version", "", <<v>>) : v \in VersionSamples}

\* the StateManager the tasks are given: StateManager::new(1), or the same
\* after apply_delta("k1", [1]) has returned
LockState ==
    /\ m_max = 1
    /\ \E r \in {[state |-> NoState, versions |-> <<>>],
                  apply_delta(NoState, <<>>, 1, "k1", <<1>>, StateClock)} :
          /\ m_state = r.state
          /\ m_versions = r.versions
    /\ m_applied = <<>>
    /\ m_cleared = 0
    /\ m_clears = 0
    /\ m_last = NoStateCall

\* no task uses the StateManager
LockIdle ==
    /\ k_pc = [t \in Workers |-> "idle"]
    /\ k_call = [t \in Workers |-> NoLockCall]
    /\ k_step = [t \in Workers |-> 0]
    /\ k_locks = [l \in {"state", "versions"} |-> Unlocked]
    /\ k_log = <<>>

\* the task got the lock it asked for: it asks for the next one of its
\* plan, or runs the body
Granted(t) ==
    LET last == k_step[t] = Len(LockPlan(k_call[t].op))
    IN  /\ k_pc' = [k_pc EXCEPT ![t] = IF last THEN "body" ELSE "acquire"]
        /\ k_step' = [k_step EXCEPT ![t] = IF last THEN @ ELSE @ + 1]

\* a task calls an operation of the StateManager and reaches its first
\* `.await`
CallBegin ==
    /\ Len(k_log) + Cardinality({t \in Workers : k_pc[t] \notin {"idle", "release"}})
          < MaxLockCalls
    /\ \E t \in Workers :
          /\ k_pc[t] = "idle"
          /\ \E c \in LockCalls : k_call' = [k_call EXCEPT ![t] = c]
          /\ k_pc' = [k_pc EXCEPT ![t] = "acquire"]
          /\ k_step' = [k_step EXCEPT ![t] = 1]
    /\ UNCHANGED <<k_locks, k_log>>
    /\ UNCHANGED stateVars
    /\ UNCHANGED offLock

\* `.write().await` or `.read().await`: the guard is returned at once when
\* nobody waits and the mode is compatible, else the task is queued
LockAcquire ==
    /\ \E t \in Workers :
          /\ k_pc[t] = "acquire"
          /\ LET want == LockPlan(k_call[t].op)[k_step[t]]
                 lock == k_locks[want[1]]
             IN  IF lock.queue = <<>> /\ CanGrant(lock, want[2])
                 THEN /\ k_locks' = [k_locks EXCEPT ![want[1]].holders =
                                         @ \cup {Hold(t, want[2])}]
                      /\ Granted(t)
                 ELSE /\ k_locks' = [k_locks EXCEPT ![want[1]].queue =
                                         Append(@, Hold(t, want[2]))]
                      /\ k_pc' = [k_pc EXCEPT ![t] = "waiting"]
                      /\ k_step' = k_step
    /\ UNCHANGED <<k_call, k_log>>
    /\ UNCHANGED stateVars
    /\ UNCHANGED offLock

\* the first waiter of a lock is given its guard
LockGrant ==
    /\ \E t \in Workers :
          /\ k_pc[t] = "waiting"
          /\ LET want == LockPlan(k_call[t].op)[k_step[t]]
                 lock == k_locks[want[1]]
             IN  /\ lock.queue # <<>>
                 /\ Head(lock.queue).task = t
                 /\ CanGrant(lock, want[2])
                 /\ k_locks' = [k_locks EXCEPT ![want[1]] =
                                   [holders |-> lock.holders \cup {Hold(t, want[2])},
                                    queue |-> Tail(lock.queue)]]
                 /\ Granted(t)
    /\ UNCHANGED <<k_call, k_log>>
    /\ UNCHANGED stateVars
    /\ UNCHANGED offLock

\* what the body of a call puts on record when it has its return value
Logged(t, ret) == Append(k_log, [task |-> t, op |-> k_call[t].op, ret |-> ret])

\* apply_delta, `state.insert(key, new_state.clone())`
DeltaInsert ==
    /\ \E t \in Workers :
          /\ k_pc[t] = "body"
          /\ k_call[t].op = "apply_delta"
          /\ m_state' = apply_delta(m_state, m_versions, m_max, k_call[t].key,
                                    k_call[t].arg[1], StateClock).state
          /\ k_call' = [k_call EXCEPT ![t].pre = m_state]
          /\ k_pc' = [k_pc EXCEPT ![t] = "half"]
    /\ UNCHANGED <<k_step, k_locks, k_log>>
    /\ UNCHANGED <<m_max, m_versions, m_applied, m_cleared, m_clears, m_last>>
    /\ UNCHANGED offLock

\* apply_delta, from `let version = ..` to `versions.remove(0)`
DeltaPush ==
    /\ \E t \in Workers :
          /\ k_pc[t] = "half"
          /\ k_call[t].op = "apply_delta"
          /\ LET r == apply_delta(k_call[t].pre, m_versions, m_max, k_call[t].key,
                                  k_call[t].arg[1], StateClock)
             IN  /\ m_versions' = r.versions
                 /\ k_log' = Logged(t, r.ret)
          /\ k_pc' = [k_pc EXCEPT ![t] = "release"]
    /\ UNCHANGED <<k_call, k_step, k_locks>>
    /\ UNCHANGED <<m_max, m_state, m_applied, m_cleared, m_clears, m_last>>
    /\ UNCHANGED offLock

\* clear_state, `state.clear()`
ClearMap ==
    /\ \E t \in Workers :
          /\ k_pc[t] = "body"
          /\ k_call[t].op = "clear_state"
          /\ k_pc' = [k_pc EXCEPT ![t] = "half"]
    /\ m_state' = NoState
    /\ UNCHANGED <<k_call, k_step, k_locks, k_log>>
    /\ UNCHANGED <<m_max, m_versions, m_applied, m_cleared, m_clears, m_last>>
    /\ UNCHANGED offLock

\* clear_state, `versions.clear()`
ClearHistory ==
    /\ \E t \in Workers :
          /\ k_pc[t] = "half"
          /\ k_call[t].op = "clear_state"
          /\ k_log' = Logged(t, <<>>)
          /\ k_pc' = [k_pc EXCEPT ![t] = "release"]
    /\ m_versions' = <<>>
    /\ UNCHANGED <<k_call, k_step, k_locks>>
    /\ UNCHANGED <<m_max, m_state, m_applied, m_cleared, m_clears, m_last>>
    /\ UNCHANGED offLock

\* get_state, `state.get(key).cloned()`
ReadState ==
    /\ \E t \in Workers :
          /\ k_pc[t] = "body"
          /\ k_call[t].op = "get_state"
          /\ k_log' = Logged(t, get_state(m_state, k_call[t].key))
          /\ k_pc' = [k_pc EXCEPT ![t] = "release"]
    /\ UNCHANGED <<k_call, k_step, k_locks>>
    /\ UNCHANGED stateVars
    /\ UNCHANGED offLock

\* validate_version, `versions.iter().any(..)`, and get_version_history,
\* `.clone()`
ReadVersions ==
    /\ \E t \in Workers :
          /\ k_pc[t] = "body"
          /\ k_call[t].op \in {"validate_version", "get_version_history"}
          /\ k_log' = Logged(t, IF k_call[t].op = "validate_version"
                                THEN <<validate_version(m_versions, k_call[t].arg[1])>>
                                ELSE m_versions)
          /\ k_pc' = [k_pc EXCEPT ![t] = "release"]
    /\ UNCHANGED <<k_call, k_step, k_locks>>
    /\ UNCHANGED stateVars
    /\ UNCHANGED offLock

\* the end of the call: the guards are dropped, the one taken last first,
\* and with the last of them the call returns
GuardDrop ==
    /\ \E t \in Workers :
          /\ k_pc[t] = "release"
          /\ LET held == LockPlan(k_call[t].op)[k_step[t]]
             IN  k_locks' = [k_locks EXCEPT ![held[1]].holders =
                                @ \ {Hold(t, held[2])}]
          /\ k_step' = [k_step EXCEPT ![t] = @ - 1]
          /\ k_pc' = [k_pc EXCEPT ![t] = IF k_step[t] = 1 THEN "idle" ELSE "release"]
          /\ k_call' = [k_call EXCEPT ![t] = IF k_step[t] = 1 THEN NoLockCall ELSE @]
    /\ UNCHANGED k_log
    /\ UNCHANGED stateVars
    /\ UNCHANGED offLock

\* a step inside a call
LockStep ==
    \/ LockAcquire
    \/ LockGrant
    \/ DeltaInsert
    \/ DeltaPush
    \/ ClearMap
    \/ ClearHistory
    \/ ReadState
    \/ ReadVersions
    \/ GuardDrop

LockNext ==
    \/ CallBegin
    \/ LockStep

---------------------------------------------------------------------------
(* observability.rs: Telemetry.  record_metric and record_trace are the    *)
(* same send on two separate bounded tokio mpsc channels; one of the two   *)
(* is followed.  Both take &self, so a record call may start while earlier *)
(* ones are suspended; the channel's semaphore serves suspended senders in *)
(* arrival order                                                           *)

TelemetryChannels == {"metrics", "traces"}

\* mpsc::channel(capacity) requires a capacity of at least one
TelCapSamples == {1, 2}

\* the Metric or the Trace passed to the n-th record call
TelItem(ch, n) ==
    IF ch = "metrics" THEN [name |-> "metric", value |-> n]
    ELSE [name |-> "trace", span_id |-> n]

\* the entry of a record call that has not returned
Suspended == [kind |-> "Suspended", err |-> "", text |-> "", val |-> <<>>]

\* a record call that reports success when the receiver is gone
record_closed_ok == Ok(<<>>)

\* `.map_err(|e| ProtocolError::InvalidFormat(e.to_string()))` of SendError
record_closed == Err("InvalidFormat", "channel closed")

TelInit ==
    /\ t_ch \in TelemetryChannels
    /\ t_cap \in TelCapSamples
    /\ t_queue = <<>>
    /\ t_waiting = <<>>
    /\ t_rx = TRUE
    /\ t_ret = <<>>
    /\ t_taken = <<>>

\* the telemetry at rest, while another component runs
TelIdle ==
    /\ t_ch = "metrics"
    /\ t_cap = 1
    /\ t_queue = <<>>
    /\ t_waiting = <<>>
    /\ t_rx = TRUE
    /\ t_ret = <<>>
    /\ t_taken = <<>>

\* record_metric(metric) or record_trace(trace) is called: tx.send(item)
\* fails at once on a closed channel, takes a permit and queues the item
\* when there is one and nobody waits for it, and suspends otherwise
TelRecord ==
    /\ Len(t_ret) < MaxRecords
    /\ LET item == TelItem(t_ch, Len(t_ret) + 1)
       IN  IF ~t_rx
           THEN /\ t_ret' = Append(t_ret, record_closed)
                /\ UNCHANGED <<t_queue, t_waiting>>
           ELSE IF HasPermit(t_queue, t_cap) /\ t_waiting = <<>>
           THEN /\ t_queue' = Append(t_queue, item)
                /\ t_ret' = Append(t_ret, Ok(<<>>))
                /\ UNCHANGED t_waiting
           ELSE /\ t_waiting' = Append(t_waiting, item)
                /\ t_ret' = Append(t_ret, Suspended)
                /\ UNCHANGED t_queue
    /\ UNCHANGED <<t_ch, t_cap, t_rx, t_taken>>
    /\ UNCHANGED offTelemetry

\* the index of the record call that passed item
TelIndex(item) == IF t_ch = "metrics" THEN item.value ELSE item.span_id

\* the longest suspended send is woken with a permit and queues its item
TelResume ==
    /\ t_rx
    /\ t_waiting # <<>>
    /\ HasPermit(t_queue, t_cap)
    /\ t_queue' = Append(t_queue, Head(t_waiting))
    /\ t_ret' = [t_ret EXCEPT ![TelIndex(Head(t_waiting))] = Ok(<<>>)]
    /\ t_waiting' = Tail(t_waiting)
    /\ UNCHANGED <<t_ch, t_cap, t_rx, t_taken>>
    /\ UNCHANGED offTelemetry

\* a suspended send is woken by the close of the channel and returns the
\* error
TelFail ==
    /\ ~t_rx
    /\ \E n \in 1..Len(t_waiting) :
          /\ t_ret' = [t_ret EXCEPT ![TelIndex(t_waiting[n])] = record_closed]
          /\ t_waiting' = SubSeq(t_waiting, 1, n - 1)
                             \o SubSeq(t_waiting, n + 1, Len(t_waiting))
    /\ UNCHANGED <<t_ch, t_cap, t_queue, t_rx, t_taken>>
    /\ UNCHANGED offTelemetry

\* the owner of the Receiver takes an item: rx.recv()
TelRecv ==
    /\ t_rx
    /\ t_queue # <<>>
    /\ t_taken' = Append(t_taken, Head(t_queue))
    /\ t_queue' = Tail(t_queue)
    /\ UNCHANGED <<t_ch, t_cap, t_waiting, t_rx, t_ret>>
    /\ UNCHANGED offTelemetry

\* the owner of the Receiver drops it: the channel is closed and what it
\* still holds is dropped with it
TelDropReceiver ==
    /\ t_rx
    /\ t_rx' = FALSE
    /\ t_queue' = <<>>
    /\ UNCHANGED <<t_ch, t_cap, t_waiting, t_ret, t_taken>>
    /\ UNCHANGED offTelemetry

TelNext ==
    \/ TelRecord
    \/ TelResume
    \/ TelFail
    \/ TelRecv
    \/ TelDropReceiver

\* a woken sender is polled again by the runtime
TelWake == TelResume \/ TelFail

---------------------------------------------------------------------------
(* Specifications *)

\* two Transports over one pipe: every frame on the wire comes from send
Next ==
    \/ SendCall
    \/ SendWrite
    \/ SendWriteErr
    \/ SendFlush
    \/ SendFlushErr
    \/ Close
    \/ RecvCall
    \/ RecvRead
    \/ RecvReadErr
    \/ RecvEof
    \/ RecvFrame

Init == CodecIdle /\ TransInit /\ PipeIdle /\ StreamIdle /\ ClientIdle
        /\ RegIdle /\ StateIdle /\ TelIdle /\ LockIdle

Spec == Init /\ [][Next]_vars

\* a sender whose calls may fail or be dropped partway, and a receiver that
\* keeps taking frames from the other end
NextSend ==
    \/ SendCall
    \/ SendWrite
    \/ SendWriteErr
    \/ SendFlush
    \/ SendFlushErr
    \/ SendCancel
    \/ RecvCall
    \/ RecvRead
    \/ RecvFrame

InitSend == CodecIdle /\ TransInit /\ PipeIdle /\ StreamIdle /\ ClientIdle
            /\ RegIdle /\ StateIdle /\ TelIdle /\ LockIdle

SpecSend == InitSend /\ [][NextSend]_vars

\* a client that only makes streaming requests and polls what they return
NextClientStream ==
    \/ ClientStream
    \/ SendWrite
    \/ SendFlush
    \/ SendFlushErr
    \/ StreamSent
    \/ ServerRead
    \/ ConsumerPull

InitClientStream == CodecIdle /\ TransInit /\ PipeIdle /\ StreamIdle /\ ClientInit
                    /\ RegIdle /\ StateIdle /\ TelIdle /\ LockIdle

SpecClientStream == InitClientStream /\ [][NextClientStream]_vars

\* test_transport_backpressure: a sender and a spawned receiver over a pipe
\* smaller than a frame, no endpoint error and no close
NextLive ==
    \/ SendCall
    \/ SendWrite
    \/ SendFlush
    \/ RecvCall
    \/ RecvRead
    \/ RecvFrame

\* a step of either task that moves bytes or ends a call: a write that
\* accepts at least one byte, a flush, a call of receive, a read, a frame
Progress ==
    \/ SendWrite /\ wire' # wire
    \/ SendFlush
    \/ RecvCall
    \/ RecvRead
    \/ RecvFrame

\* the runtime keeps polling the tasks that can run: while the sender can
\* write to a pipe with room or the spawned receiver can go on, one of them
\* does
Fairness == WF_vars(Progress)

SpecLive == Init /\ [][NextLive]_vars /\ Fairness

\* the receiving Transport faces a peer that also writes frames of its own
NextWire ==
    \/ SendCall
    \/ Inject
    \/ SendWrite
    \/ SendWriteErr
    \/ SendFlush
    \/ SendFlushErr
    \/ Close
    \/ RecvCall
    \/ RecvRead
    \/ RecvReadErr
    \/ RecvEof
    \/ RecvFrame

SpecWire == Init /\ [][NextWire]_vars

\* the codec alone
InitCodec == CodecInit /\ TransInit /\ PipeIdle /\ StreamIdle /\ ClientIdle
        /\ RegIdle /\ StateIdle /\ TelIdle /\ LockIdle

SpecCodec == InitCodec /\ [][CodecNext]_vars

\* the payload pipeline alone
InitPipe == CodecIdle /\ TransInit /\ PipeInit /\ StreamIdle /\ ClientIdle
        /\ RegIdle /\ StateIdle /\ TelIdle /\ LockIdle

SpecPipe == InitPipe /\ [][PipeNext]_vars

\* a RemusClient and its server; of the ways a send can fail, the failed
\* flush
NextClient ==
    \/ ClientRequest
    \/ ClientStream
    \/ SendWrite
    \/ SendFlush
    \/ SendFlushErr
    \/ RequestSent
    \/ StreamSent
    \/ ClientRecvRead
    \/ ClientRecvEof
    \/ ClientRecvFrame
    \/ ClientTimeout
    \/ ServerRead
    \/ ServerReply
    \/ ServerWrite
    \/ ServerShutdown

InitClient == CodecIdle /\ TransInit /\ PipeIdle /\ StreamIdle /\ ClientInit
        /\ RegIdle /\ StateIdle /\ TelIdle /\ LockIdle

SpecClient == InitClient /\ [][NextClient]_vars

\* a MessageStream, its producer and its consumer
InitStream == CodecIdle /\ TransInit /\ PipeIdle /\ StreamInit /\ ClientIdle
        /\ RegIdle /\ StateIdle /\ TelIdle /\ LockIdle

SpecStream == InitStream /\ [][StreamNext]_vars

\* a ServiceRegistry and the calls made on it
InitRegistry == CodecIdle /\ TransInit /\ PipeIdle /\ StreamIdle /\ ClientIdle
        /\ RegInit /\ StateIdle /\ TelIdle /\ LockIdle

SpecRegistry == InitRegistry /\ [][RegNext]_vars

\* a StateManager and the calls made on it, one at a time
InitState == CodecIdle /\ TransInit /\ PipeIdle /\ StreamIdle /\ ClientIdle
        /\ RegIdle /\ StateInit /\ TelIdle /\ LockIdle

SpecState == InitState /\ [][StateNext]_vars

\* a Telemetry, the tasks that record on it and the owner of its receiver
InitTelemetry == CodecIdle /\ TransInit /\ PipeIdle /\ StreamIdle /\ ClientIdle
        /\ RegIdle /\ StateIdle /\ TelInit /\ LockIdle

SpecTelemetry == InitTelemetry /\ [][TelNext]_vars /\ WF_vars(TelWake)

\* tasks on one StateManager::new(1), new or with one delta applied
InitLock == CodecIdle /\ TransInit /\ PipeIdle /\ StreamIdle /\ ClientIdle
            /\ RegIdle /\ LockState /\ TelIdle /\ LockIdle

\* a task that can go on is polled again: it is woken when its lock is
\* given to it, and the body and the drops have no `.await`
LockFairness == WF_vars(LockStep)

SpecLock == InitLock /\ [][LockNext]_vars /\ LockFairness

---------------------------------------------------------------------------
(* Properties of the codec, checked under SpecCodec *)

\* decode has run on the bytes held in `encoded`
Decoded == c_pc \in {"roundtrip", "decoded"}

\* the outcome of that decode
Outcome == decoded[1]

\* the payload_len field of a buffer that holds all 27 header bytes
DeclaredLen(buf) == from_be_bytes(SubSeq(buf, 24, 27))

\* an outcome that is a returned InvalidFormat error
IsInvalidFormat(r) == r.kind = "Err" /\ r.err = "InvalidFormat"

\* a flags byte with the undefined bit 0x80 cleared
DefinedBits(f) == IF f >= 128 THEN f - 128 ELSE f

\* C1 as stated: decode(encode(m)) succeeds and reproduces msg_type, flags,
\* payload, timestamp, request_id, priority and ttl of m for every flags
\* byte value, and routing_info and context decode to None.
C1_RoundTripAnyFlags ==
    c_pc = "roundtrip" =>
        /\ Outcome.kind = "Ok"
        /\ Outcome.val[1] = [original EXCEPT !.routing_info = None, !.context = None]

\* C1 amended: decode(encode(m)) succeeds and reproduces msg_type, payload,
\* timestamp, request_id, priority and ttl of m; flags are reproduced when
\* they hold only the seven defined bits and come back with bit 0x80 cleared
\* otherwise; routing_info and context decode to None.
C1_RoundTrip ==
    c_pc = "roundtrip" =>
        /\ Outcome.kind = "Ok"
        /\ Outcome.val[1] = [original EXCEPT !.flags = DefinedBits(original.flags),
                                             !.routing_info = None, !.context = None]

C1_Witness ==
    /\ c_pc = "roundtrip"
    /\ Outcome.kind = "Ok"
    /\ original.flags = 127
    /\ original.payload # <<>>
    /\ original.context # None
    /\ Outcome.val[1].flags = 127
    /\ Outcome.val[1].payload = original.payload

C4_Header24 ==
    c_pc = "encoded" =>
        /\ Len(encoded) = 24 + Len(original.payload)
        /\ Len(encoded) - Len(original.payload) = MinMessageSize

\* C5: decode maps type byte 0, 1, 2, 3 to Request, Response, Event, Error
\* and returns InvalidFormat for every other type byte, so a decoded
\* message has one of the four variants.
C5_TypeByte ==
    (Decoded /\ Len(encoded) >= 1) =>
        LET t == encoded[1]
        IN  /\ t \notin 0..3 => IsInvalidFormat(Outcome)
            /\ Outcome.kind = "Ok" =>
                  /\ t \in 0..3
                  /\ Outcome.val[1].msg_type \in MessageType
                  /\ Outcome.val[1].msg_type =
                        <<"Request", "Response", "Event", "Error">>[t + 1]

C5_Witness ==
    /\ Decoded
    /\ Len(encoded) >= 27
    /\ encoded[1] = 255
    /\ IsInvalidFormat(Outcome)
    /\ Outcome.text = "Invalid message type"

\* C6: decode never rejects an input because of its flags byte (the outcome
\* is of the same kind whatever that byte is), and the decoded flags are the
\* flags byte with bit 0x80 cleared, the seven defined bits preserved.
C6_FlagsTruncated ==
    (Decoded /\ Len(encoded) >= 2) =>
        /\ \A f \in TamperBytes \cup FlagSamples :
              decode([encoded EXCEPT ![2] = f]).kind = Outcome.kind
        /\ Outcome.kind = "Ok" =>
              /\ Outcome.val[1].flags = DefinedBits(encoded[2])
              /\ \A bit \in {1, 2, 4, 8, 16, 32, 64} :
                    (Outcome.val[1].flags \div bit) % 2 = (encoded[2] \div bit) % 2

C6_Witness ==
    /\ Decoded
    /\ Outcome.kind = "Ok"
    /\ encoded[2] = 255
    /\ Outcome.val[1].flags = 127

\* C7: a decoded payload has the length the header declares and is exactly
\* the payload_len bytes that follow the header; later bytes are ignored.
C7_PayloadLen ==
    (Decoded /\ Outcome.kind = "Ok") =>
        /\ Len(Outcome.val[1].payload) = DeclaredLen(encoded)
        /\ Outcome.val[1].payload = SubSeq(encoded, 28, 27 + DeclaredLen(encoded))

C7_Witness ==
    /\ Decoded
    /\ Outcome.kind = "Ok"
    /\ DeclaredLen(encoded) > 0
    /\ Len(encoded) > 27 + DeclaredLen(encoded)

---------------------------------------------------------------------------
(* Properties of the transport, checked under Spec and SpecWire *)

\* C3 as stated: whatever bytes the endpoint delivers, receive ends in a
\* returned Ok or Err; nothing makes receive or decode abort.
C3_ReceiveNeverAborts ==
    /\ r_pc # "panicked"
    /\ \A i \in 1..Len(received) : received[i].kind \in {"Ok", "Err"}

\* the frame the claims expect for a message: the 4-byte big-endian length
\* of encode(m), then encode(m)
ExpectedFrame(m) == to_be_bytes(Len(encode(m)), 4) \o encode(m)

RECURSIVE ExpectedWire(_)
ExpectedWire(msgs) ==
    IF msgs = <<>> THEN <<>>
    ELSE ExpectedWire(SubSeq(msgs, 1, Len(msgs) - 1)) \o ExpectedFrame(msgs[Len(msgs)])

\* the latest send call has returned Ok
SendReturnedOk ==
    /\ s_pc = "idle"
    /\ send_results # <<>>
    /\ Len(send_results) = Len(sent)
    /\ send_results[Len(send_results)].kind = "Ok"

\* C8: when send(m) returns Ok the endpoint has accepted, after the frames of
\* the earlier sends, exactly the length prefix and the bytes of encode(m),
\* each once and in order, the endpoint is flushed and write_buf is empty.
C8_SendWritesFrame ==
    SendReturnedOk =>
        /\ wire = ExpectedWire(sent)
        /\ write_buf = <<>>
        /\ flushed = Len(wire)

C8_Witness ==
    /\ SendReturnedOk
    /\ Len(sent) = 2
    /\ send_results[1].kind = "Ok"
    /\ wire = ExpectedWire(sent)

\* a receive result that came from a frame (not from a failed or empty read)
FromFrame(r) == ~(r.kind = "Err" /\ (r.err = "IoError" \/ r.text = "Connection closed"))

Returned == SelectSeq(received, FromFrame)

\* what receive returns when the whole frame arrives in a single read
ReceiveWhole(frame) ==
    decode(SubSeq(frame, 5, 4 + from_be_bytes(SubSeq(frame, 1, 4))))

\* C9: however the bytes of a valid frame are split over the underlying
\* reads, receive returns what it returns when the frame arrives in one read.
C9_FragmentationInvariance ==
    /\ Len(Returned) <= Len(sent)
    /\ \A j \in 1..Len(Returned) : Returned[j] = ReceiveWhole(ExpectedFrame(sent[j]))

C9_Witness ==
    /\ r_pc = "idle"
    /\ split
    /\ received # <<>>
    /\ received[Len(received)].kind = "Ok"
    /\ Returned[Len(Returned)] = ReceiveWhole(ExpectedFrame(sent[Len(Returned)]))

\* C10 as stated: successive receives return m1..mn in order with identical
\* type, flags, timestamp, request_id, priority, ttl and payload.
C10_InOrderIdentical ==
    /\ Len(Returned) <= Len(sent)
    /\ \A j \in 1..Len(Returned) : Returned[j] = Ok(sent[j])

\* C10 amended: successive receives return m1..mn in order with identical
\* type, timestamp, request_id, priority, ttl and payload, and with the sent
\* flags restricted to the seven defined bits (identical when the sent flags
\* hold no undefined bit); bytes of a following frame read with the current
\* one stay in read_buf, none lost and none duplicated.
C10_InOrder ==
    /\ Len(Returned) <= Len(sent)
    /\ \A j \in 1..Len(Returned) :
          Returned[j] = Ok([sent[j] EXCEPT !.flags = DefinedBits(sent[j].flags)])
    /\ r_pc # "panicked" =>
          ExpectedWire(SubSeq(sent, 1, Len(Returned))) \o read_buf \o inner = wire

C10_Witness ==
    /\ Len(Returned) = 2
    /\ Returned[1].kind = "Ok"
    /\ Returned[2].kind = "Ok"
    /\ sent[1] # sent[2]
    /\ sent[1].flags < 128
    /\ Returned[1].val[1] = sent[1]
    /\ carried
    /\ read_buf = <<>>
    /\ inner = <<>>

\* the latest value receive returned
LastReceived == received[Len(received)]

\* C11: when a read returns zero bytes (the peer closed, nothing is left in
\* the pipe) while read_buf holds less than a complete frame, receive returns
\* Err(InvalidFormat("Connection closed")) and no Message, and read_buf keeps
\* the bytes it held.
C11_PeerClose ==
    [][(/\ r_pc = "running"
        /\ NeedMore(read_buf)
        /\ inner = <<>>
        /\ closed
        /\ r_pc' # "running"
        /\ io_errors' = io_errors)
       => /\ received' = Append(received, Err("InvalidFormat", "Connection closed"))
          /\ read_buf' = read_buf
          /\ r_pc' = "idle"]_vars

\* the close was met with a partial frame body buffered
C11_Witness ==
    /\ r_pc = "idle"
    /\ received # <<>>
    /\ LastReceived = Err("InvalidFormat", "Connection closed")
    /\ Len(read_buf) > 4
    /\ NeedMore(read_buf)
    /\ closed
    /\ inner = <<>>

---------------------------------------------------------------------------
(* Backpressure, checked under SpecLive *)

\* the k-th call of send has returned Ok
SendOk(k) == Len(send_results) >= k /\ send_results[k].kind = "Ok"

\* the k-th message sent has been returned by a receive of the peer
Delivered(k) ==
    /\ Len(Returned) >= k
    /\ Returned[k] = ReceiveWhole(ExpectedFrame(sent[k]))

\* no send is in progress, every send so far returned Ok and the peer has
\* received every message sent so far
Settled ==
    /\ s_pc = "idle"
    /\ \A k \in 1..Len(sent) : SendOk(k) /\ Delivered(k)

\* C12: with a pipe smaller than a frame and a peer that keeps receiving,
\* every send eventually returns Ok and the peer eventually receives the
\* message; each write advances the cursor by exactly the bytes accepted
\* (accepted bytes followed by write_buf are the frames passed to send), a
\* write of zero bytes does not end the call, and send has returned only
\* with write_buf empty.
C12_Backpressure ==
    /\ [](wire \o write_buf = ExpectedWire(sent))
    /\ [](stalled => s_pc \in {"writing", "flushing"})
    /\ [](s_pc = "idle" => write_buf = <<>> /\ Len(send_results) = Len(sent))
    /\ (s_pc # "idle") ~> Settled

\* every byte of a frame larger than the pipe was accepted after a write of
\* zero bytes, the pipe was full on the way, and the peer has the message
C12_Witness ==
    /\ SendOk(2)
    /\ Delivered(2)
    /\ \A m \in WireMessages : Len(ExpectedFrame(m)) > PipeCap
    /\ s_pc = "idle"
    /\ wire = ExpectedWire(sent)

---------------------------------------------------------------------------
(* Properties of the payload pipeline, checked under SpecPipe *)

\* C19: compress_if_beneficial(data) returns compress(data) if and only if
\* that is strictly shorter than data, otherwise data byte for byte; the
\* output is never longer than the input, and empty input comes back empty.
C19_CompressIfBeneficial ==
    p_pc = "compressed" =>
        /\ Len(compress(p_data)) < Len(p_data) => p_out = compress(p_data)
        /\ Len(compress(p_data)) >= Len(p_data) => p_out = p_data
        /\ Len(p_out) <= Len(p_data)
        /\ p_data = <<>> => p_out = <<>>

\* the compressed form was as long as the input and the input came back
C19_Witness ==
    /\ p_pc = "compressed"
    /\ p_data # <<>>
    /\ Len(compress(p_data)) = Len(p_data)
    /\ p_out = p_data

\* C20: decrypt(encrypt(x)) under one key succeeds and returns x, for every
\* x including the empty one; the encrypted output is the 12-byte nonce
\* followed by ciphertext and tag, so it is at least 12 bytes long.
C20_EncryptRoundTrip ==
    /\ p_pc \in {"encrypted", "decrypted"} =>
          /\ Len(p_out) >= 12
          /\ Take(p_out, 12) = p_nonce
          /\ Len(p_out) = 12 + Len(p_data) + TagLen
    /\ p_pc = "decrypted" => p_dec[1] = Ok(p_data)

C20_Witness ==
    /\ p_pc = "decrypted"
    /\ p_data = <<>>
    /\ Len(p_out) = 28
    /\ p_dec[1].kind = "Ok"

\* decrypt ran on bytes that are not the untouched output of encrypt
Answered == p_pc = "answered"

\* C21: when one byte of an output of encrypt was changed, at any position
\* (nonce, ciphertext or tag), or when the output is decrypted under another
\* key, decrypt returns an EncryptionError and no plaintext.
C21_TamperDetection ==
    Answered /\ p_case \in {"tampered", "rekeyed"} =>
        /\ p_dec[1].kind = "Err"
        /\ p_dec[1].err = "EncryptionError"
        /\ p_dec[1].val = <<>>

\* the byte at position 12 (the first ciphertext byte) was changed, as in
\* test_encryption_tamper_detection, and decrypt returned an error
C21_Witness ==
    /\ Answered
    /\ p_case = "tampered"
    /\ p_data # <<>>
    /\ Take(p_in, 12) = Take(p_out, 12)
    /\ p_in[13] # p_out[13]
    /\ p_dec[1].kind = "Err"

---------------------------------------------------------------------------
(* Properties of MessageStream, checked under SpecStream *)

\* a pull that yielded the end marker
IsStreamEnd(item) == item.kind = "Some" /\ item.val[1].msg_type = "StreamEnd"

\* a pull that closes the stream: it yielded the end marker, or it found the
\* channel empty with every sender dropped
Closes(item) == IsStreamEnd(item) \/ item = ReadyNone

\* the messages the consumer was given, in pull order
RECURSIVE Yielded(_)
Yielded(items) ==
    IF items = <<>> THEN <<>>
    ELSE LET rest == Yielded(SubSeq(items, 1, Len(items) - 1))
             last == items[Len(items)]
         IN  IF last.kind = "Some" THEN Append(rest, last.val[1]) ELSE rest

\* C17: closure is permanent: once a pull has yielded a stream-end message
\* or has found the sender dropped and the queue empty, closed is true and
\* every later pull returns None, whatever is pushed into or still sits in
\* the queue.
C17_ClosurePermanent ==
    /\ \A i \in 1..Len(st_pulled) :
          Closes(st_pulled[i]) =>
              /\ st_closed
              /\ \A j \in (i + 1)..Len(st_pulled) : st_pulled[j] = ReadyNone
    /\ st_closed => \E i \in 1..Len(st_pulled) : Closes(st_pulled[i])

\* the end marker was pulled with a message behind it in the queue, and the
\* two pulls after it returned None
C17_Witness ==
    /\ Len(st_pulled) >= 3
    /\ IsStreamEnd(st_pulled[Len(st_pulled) - 2])
    /\ st_pulled[Len(st_pulled) - 1] = ReadyNone
    /\ st_pulled[Len(st_pulled)] = ReadyNone
    /\ st_queue # <<>>
    /\ st_closed

\* C18: the queue never holds more than its capacity; a send on a full
\* queue is suspended and is suspended only while the queue is full, so it
\* completes only after a pull; the consumer is given the messages in the
\* order the producer sent them, none lost or duplicated.
C18_BoundedQueue ==
    /\ [](Len(st_queue) <= st_cap)
    /\ [](Yielded(st_pulled) \o st_queue \o st_blocked = st_pushed)
    /\ [][(st_pushed' # st_pushed /\ Len(st_queue) >= st_cap)
             => (st_blocked' # <<>> /\ st_queue' = st_queue)]_vars
    /\ [][(st_blocked # <<>> /\ st_blocked' = <<>>)
             => (Len(st_queue) < st_cap /\ Yielded(st_pulled) # <<>>)]_vars

\* a send is suspended on the full queue after the consumer was handed the
\* first message
C18_Witness ==
    /\ st_blocked # <<>>
    /\ Len(st_queue) = st_cap
    /\ Len(Yielded(st_pulled)) = 1
    /\ st_pushed[1] # st_pushed[2]

---------------------------------------------------------------------------
(* Properties of RemusClient, checked under SpecClient *)

\* the latest value a call of the client returned
LastResult == q_results[Len(q_results)]

\* the frames of the messages handed to the client's transport, in order
RECURSIVE ClientWire(_)
ClientWire(msgs) ==
    IF msgs = <<>> THEN <<>>
    ELSE ClientWire(SubSeq(msgs, 1, Len(msgs) - 1)) \o ClientFrame(msgs[Len(msgs)])

\* the payload the pipeline yields for call c: compressed if beneficial,
\* then encrypted if a key is configured
PipelineOutput(c) ==
    LET compressed == compress_if_beneficial(c.payload)
    IN  IF q_key = <<>> THEN compressed ELSE encrypt(q_key[1], c.nonce, compressed)

\* C13: when the timeout elapses with no complete response frame received,
\* request returns Err(InvalidFormat("Request timeout")); nothing is sent
\* again, no retry and no reconnection happen, and the bytes accumulated in
\* read_buf stay there for the next receive.  The timeout error is returned
\* in no other situation.
C13_Timeout ==
    /\ [][(/\ q_pc = "receiving"
            /\ q_pc' # "receiving"
            /\ NeedMore(read_buf)
            /\ back = <<>>
            /\ ~srv_closed)
           => /\ q_results' = Append(q_results, Err("InvalidFormat", "Request timeout"))
              /\ read_buf' = read_buf
              /\ q_pc' = "idle"
              /\ UNCHANGED <<sendVars, q_calls, back, srv_msgs>>]_vars
    /\ [][(/\ q_results' # q_results
            /\ q_results'[Len(q_results')] = Err("InvalidFormat", "Request timeout"))
           => /\ q_pc = "receiving"
              /\ NeedMore(read_buf)
              /\ read_buf' = read_buf]_vars

\* the timeout found part of a response in read_buf, and the request had
\* gone out once
C13_Witness ==
    /\ q_results # <<>>
    /\ LastResult = Err("InvalidFormat", "Request timeout")
    /\ Len(read_buf) > 4
    /\ Len(sent) = 1
    /\ wire = ClientFrame(sent[1])
    /\ q_pc = "idle"

\* C14: request hands exactly one message to the transport and has it
\* written out before it waits: type Request, flags exactly IDEMPOTENT,
\* the request_id drawn for the call, and as payload the output of the
\* pipeline (compress if beneficial, then encrypt iff a key is configured).
C14_RequestMessage ==
    /\ Len(sent) = Len(q_calls)
    /\ \A i \in 1..Len(q_calls) :
          q_calls[i].op = "request" =>
              /\ sent[i].msg_type = "Request"
              /\ sent[i].flags = IDEMPOTENT
              /\ sent[i].request_id = q_calls[i].id
              /\ sent[i].payload = PipelineOutput(q_calls[i])
    /\ q_pc = "receiving" => (write_buf = <<>> /\ wire = ClientWire(sent))

\* a request with a key and a compressible payload is waiting for its
\* response: the payload on the wire is the encrypted compressed form
C14_Witness ==
    /\ q_pc = "receiving"
    /\ q_key # <<>>
    /\ q_calls[1].payload = <<0, 0, 0, 0>>
    /\ sent[1].payload = encrypt(q_key[1], q_calls[1].nonce, compress(<<0, 0, 0, 0>>))
    /\ sent[1].flags = 16
    /\ wire = ClientFrame(sent[1])

\* call i was a request that returned Ok
RequestOk(i) == q_calls[i].op = "request" /\ q_results[i].kind = "Ok"

\* C15: on success request returns the payload bytes of the received
\* message unchanged, neither decrypted nor decompressed, with or without a
\* key: the k-th successful request returns the payload of the k-th frame
\* the server wrote.
C15_PayloadUnchanged ==
    \A i \in 1..Len(q_results) :
        RequestOk(i) =>
            q_results[i] =
                Ok(srv_msgs[Cardinality({j \in 1..i : RequestOk(j)})].payload)

\* a client with a key was returned a payload it could have decrypted
C15_Witness ==
    /\ q_results # <<>>
    /\ q_key # <<>>
    /\ RequestOk(Len(q_results))
    /\ decrypt(q_key[1], LastResult.val[1]).kind = "Ok"
    /\ LastResult.val[1] = srv_msgs[1].payload

\* C16: stream makes a MessageStream with a queue of capacity 32, hands the
\* transport exactly one message, of type Stream, flagged end-of-stream,
\* with the pipeline output as payload and the stream's id as request_id,
\* and returns the stream without reading anything from the endpoint.
C16_StreamCall ==
    /\ Len(sent) = Len(q_calls)
    /\ \A i \in 1..Len(q_calls) :
          q_calls[i].op = "stream" =>
              /\ sent[i] = Message_new("Stream", STREAM_END, q_calls[i].id,
                                       PipelineOutput(q_calls[i]), q_calls[i].now)
              /\ i = Len(q_calls) => (st_id = q_calls[i].id /\ st_cap = 32)
              /\ (i <= Len(q_results) /\ q_results[i].kind = "Ok") =>
                     q_results[i] = Ok([stream_id |-> q_calls[i].id])
    /\ (\A i \in 1..Len(q_calls) : q_calls[i].op = "stream") =>
          (read_buf = <<>> /\ q_pc # "receiving")

\* stream returned its handle before the server wrote anything
C16_Witness ==
    /\ q_results # <<>>
    /\ q_calls[Len(q_results)].op = "stream"
    /\ LastResult = Ok([stream_id |-> st_id])
    /\ srv_msgs = <<>>
    /\ wire = ClientFrame(sent[1])
    /\ sent[1].request_id = st_id

---------------------------------------------------------------------------
(* Properties of the ServiceRegistry, checked under SpecRegistry *)

\* the entries of a map, as a set
Entries(services) == {services[id] : id \in DOMAIN services}

\* the elements of a sequence, as a set
Elements(seq) == {seq[i] : i \in 1..Len(seq)}

\* the ids whose time since last_seen is at least the ttl at time now, or
\* whose last_seen lies after now
ExpiredIds(services, now, ttl) ==
    {id \in DOMAIN services :
        \/ services[id].last_seen > now
        \/ now - services[id].last_seen >= ttl}

\* C23: cleanup_expired removes exactly the entries whose time since
\* last_seen is at least the ttl, or whose last_seen lies in the future, and
\* keeps every other entry unchanged, so that get_service finds no such
\* entry after it; get_service itself returns whatever is registered under
\* the id, however old, and changes nothing.
C23_CleanupExpired ==
    /\ g_last.op = "cleanup_expired" =>
          /\ DOMAIN g_services =
                DOMAIN g_last.pre \ ExpiredIds(g_last.pre, g_last.at, g_ttl)
          /\ \A id \in DOMAIN g_services : g_services[id] = g_last.pre[id]
          /\ \A id \in ExpiredIds(g_last.pre, g_last.at, g_ttl) :
                get_service(g_services, id) = <<>>
    /\ g_last.op = "get_service" =>
          /\ g_services = g_last.pre
          /\ g_last.id \in DOMAIN g_last.pre =>
                g_last.ret = <<g_last.pre[g_last.id]>>
          /\ g_last.id \notin DOMAIN g_last.pre => g_last.ret = <<>>

\* cleanup_expired removed an entry whose age was exactly the ttl and kept
\* a younger one
C23_Witness ==
    /\ g_last.op = "cleanup_expired"
    /\ g_ttl > 0
    /\ DOMAIN g_last.pre = ServiceIds
    /\ \E id \in ServiceIds :
          /\ g_last.at - g_last.pre[id].last_seen = g_ttl
          /\ DOMAIN g_services = ServiceIds \ {id}

\* C24: discover_services returns Ok with exactly the entries of the
\* client's registry whose health_status is Healthy, each once, and changes
\* nothing; get_healthy_services, to which it delegates, returns exactly the
\* Healthy entries of any registry.
C24_DiscoverServices ==
    /\ g_last.op = "discover_services" =>
          /\ g_last.ret.kind = "Ok"
          /\ Elements(g_last.ret.val[1]) =
                {e \in Entries(g_last.pre) : e.health_status = "Healthy"}
          /\ Len(g_last.ret.val[1]) = Cardinality(Elements(g_last.ret.val[1]))
          /\ g_services = g_last.pre
    /\ g_last.op = "get_healthy_services" =>
          /\ Elements(g_last.ret) =
                {e \in Entries(g_last.pre) : e.health_status = "Healthy"}
          /\ Len(g_last.ret) = Cardinality(Elements(g_last.ret))
          /\ g_services = g_last.pre

\* discover_services returned on the client's registry
C24_Witness ==
    /\ g_owner = "client"
    /\ g_last.op = "discover_services"
    /\ g_last.ret.kind = "Ok"

\* get_healthy_services left out a Degraded entry and returned a Healthy one
C24_FilterWitness ==
    /\ g_last.op = "get_healthy_services"
    /\ Len(g_last.ret) = 1
    /\ \E e \in Entries(g_last.pre) : e.health_status = "Degraded"

\* C28: update_health(id, status) on a registered id sets the entry's
\* health_status to status and its last_seen to now, so that a cleanup at
\* that time keeps it under a positive ttl, changes no other entry and
\* returns Ok; on an id that is not registered it returns
\* Err(InvalidFormat) and leaves the registry as it was.
C28_UpdateHealth ==
    g_last.op = "update_health" =>
        IF g_last.id \in DOMAIN g_last.pre
        THEN /\ g_last.ret = Ok(<<>>)
             /\ DOMAIN g_services = DOMAIN g_last.pre
             /\ g_services[g_last.id] =
                   [g_last.pre[g_last.id] EXCEPT !.health_status = g_last.status,
                                                 !.last_seen = g_last.at]
             /\ \A id \in DOMAIN g_services \ {g_last.id} :
                   g_services[id] = g_last.pre[id]
             /\ g_ttl > 0 =>
                   g_last.id \in DOMAIN cleanup_expired(g_services, g_last.at, g_ttl)
        ELSE /\ IsInvalidFormat(g_last.ret)
             /\ g_services = g_last.pre

\* update_health changed the status of an entry that a cleanup at that time
\* would have removed, with another entry registered
C28_Witness ==
    /\ g_last.op = "update_health"
    /\ DOMAIN g_last.pre = ServiceIds
    /\ g_last.id \in ExpiredIds(g_last.pre, g_last.at, g_ttl)
    /\ g_last.pre[g_last.id].health_status # g_last.status
    /\ g_last.ret.kind = "Ok"
    /\ g_ttl > 0

\* update_health on an id that is not registered returned the error
C28_NotFoundWitness ==
    /\ g_last.op = "update_health"
    /\ g_last.id \notin DOMAIN g_last.pre
    /\ g_last.pre # NoServices
    /\ g_last.ret.kind = "Err"

---------------------------------------------------------------------------
(* Properties of the StateManager, checked under SpecState *)

\* the versions apply_delta returned since the latest clear_state (or since
\* construction), in call order
Created ==
    [i \in 1..(Len(m_applied) - m_cleared) |-> m_applied[m_cleared + i].version]

\* the deltas applied to key by the calls from + 1 onwards, concatenated in
\* call order
RECURSIVE DeltasOf(_, _, _)
DeltasOf(applied, key, from) ==
    IF Len(applied) <= from THEN <<>>
    ELSE DeltasOf(SubSeq(applied, 1, Len(applied) - 1), key, from)
            \o (IF applied[Len(applied)].key = key
                THEN applied[Len(applied)].delta ELSE <<>>)

\* some call from + 1 onwards applied a delta to key
AppliedTo(applied, key, from) ==
    \E i \in (from + 1)..Len(applied) : applied[i].key = key

\* C25: the version history never holds more than max_versions entries: it
\* is always the most recent min(n, max_versions) of the n versions created,
\* in creation order, and a push onto a full history removes exactly the
\* oldest entry.
C25_VersionLimit ==
    /\ Len(m_versions) <= m_max
    /\ LET n == Len(Created)
       IN  m_versions = SubSeq(Created, n - Min(n, m_max) + 1, n)
    /\ m_last.op = "apply_delta" /\ m_max > 0
          /\ Len(m_last.pre_versions) = m_max =>
             m_versions = Tail(m_last.pre_versions) \o <<m_last.ret>>

\* three versions were created under max_versions = 2 and the history holds
\* the second and the third, as in test_version_limit
C25_Witness ==
    /\ m_max = 2
    /\ m_last.op = "apply_delta"
    /\ Len(Created) = 3
    /\ m_versions = <<Created[2], Created[3]>>

\* C29 as stated: get_state(key) returns the concatenation of all deltas
\* ever applied to key, in order.
C29_AllDeltas ==
    m_last.op = "get_state" /\ AppliedTo(m_applied, m_last.key, 0) =>
        m_last.ret = <<DeltasOf(m_applied, m_last.key, 0)>>

\* C29 (amended): apply_delta(key, delta) sets the value of key to the
\* previous value with delta appended, or to delta when the key was absent,
\* leaves every other key unchanged and returns a version whose checksum is
\* the hash of the new value; when max_versions >= 1 validate_version of
\* the returned version is true right afterwards; get_state(key) returns
\* the concatenation of the deltas applied to key since the latest
\* clear_state, in order, and None when there were none.
C29_ApplyDelta ==
    /\ m_last.op = "apply_delta" =>
          /\ DOMAIN m_state = DOMAIN m_last.pre \cup {m_last.key}
          /\ m_state[m_last.key] =
                IF m_last.key \in DOMAIN m_last.pre
                THEN m_last.pre[m_last.key] \o m_last.arg[1]
                ELSE m_last.arg[1]
          /\ \A k \in DOMAIN m_state \ {m_last.key} : m_state[k] = m_last.pre[k]
          /\ m_last.ret.checksum = calculate_checksum(m_state[m_last.key])
          /\ m_max >= 1 => validate_version(m_versions, m_last.ret)
    /\ m_last.op = "get_state" =>
          /\ AppliedTo(m_applied, m_last.key, m_cleared) =>
                m_last.ret = <<DeltasOf(m_applied, m_last.key, m_cleared)>>
          /\ ~AppliedTo(m_applied, m_last.key, m_cleared) => m_last.ret = <<>>

\* a second delta was appended to a key while another key kept its value
C29_Witness ==
    /\ m_last.op = "apply_delta"
    /\ m_last.key \in DOMAIN m_last.pre
    /\ DOMAIN m_state = StateKeys
    /\ Len(m_state[m_last.key]) = 2
    /\ m_max >= 1

\* C30: absent clear_state, the version numbers apply_delta returns are
\* strictly increasing and the history never holds two entries with the
\* same version number.
C30_StrictlyIncreasing ==
    m_clears = 0 =>
        /\ \A i, j \in 1..Len(m_applied) :
              i < j => m_applied[i].version.version < m_applied[j].version.version
        /\ \A i, j \in 1..Len(m_versions) :
              i # j => m_versions[i].version # m_versions[j].version

---------------------------------------------------------------------------
(* Properties of Telemetry, checked under SpecTelemetry *)

\* the items of the record calls whose entry in t_ret is r, in call order
RECURSIVE ItemsWith(_, _)
ItemsWith(ret, r) ==
    IF ret = <<>> THEN <<>>
    ELSE ItemsWith(SubSeq(ret, 1, Len(ret) - 1), r)
            \o (IF ret[Len(ret)] = r THEN <<TelItem(t_ch, Len(ret))>> ELSE <<>>)

IsPrefix(a, b) == Len(a) <= Len(b) /\ a = SubSeq(b, 1, Len(a))

\* the channel never holds more than its capacity; the items of the calls
\* that returned Ok are, in call order, the items taken followed by the
\* items held (none lost, overwritten or reordered while the receiver
\* lives); the suspended calls are the waiting ones; an error is returned
\* only on a closed channel and is InvalidFormat
TelSafe ==
    /\ Len(t_queue) <= t_cap
    /\ IsPrefix(t_taken \o t_queue, ItemsWith(t_ret, Ok(<<>>)))
    /\ t_rx => t_taken \o t_queue = ItemsWith(t_ret, Ok(<<>>))
    /\ t_waiting = ItemsWith(t_ret, Suspended)
    /\ \A n \in 1..Len(t_ret) :
          t_ret[n].kind = "Err" => ~t_rx /\ IsInvalidFormat(t_ret[n])

\* a record call on a full channel whose receiver lives suspends and queues
\* nothing
TelSuspends ==
    Len(t_ret') = Len(t_ret) + 1 /\ t_rx /\ Len(t_queue) = t_cap =>
        /\ t_ret'[Len(t_ret')] = Suspended
        /\ t_queue' = t_queue
        /\ t_taken' = t_taken

\* a suspended call returns Ok only when the channel has room again, which
\* takes the receiver taking an item, and its item is queued then
TelResumes ==
    \A n \in 1..Len(t_ret) :
        t_ret[n] = Suspended /\ t_ret'[n] = Ok(<<>>) =>
            /\ Len(t_queue) < t_cap
            /\ t_taken # <<>>
            /\ t_queue' = Append(t_queue, TelItem(t_ch, n))

\* on a channel whose receiver was dropped a call returns the error and
\* nothing else, whether it starts then or was suspended
TelClosed ==
    ~t_rx =>
        \A n \in 1..Len(t_ret') :
            (IF n > Len(t_ret) THEN TRUE ELSE t_ret'[n] # t_ret[n]) =>
                t_ret'[n] = Err("InvalidFormat", "channel closed")

\* C26: record_metric and record_trace on a channel that holds its capacity
\* of undelivered items suspend until the receiver takes an item, never
\* drop or overwrite an item and deliver in send order; once the receiver
\* is dropped they return an InvalidFormat error, and the calls suspended
\* at that time return too.
C26_TelemetryBackpressure ==
    /\ []TelSafe
    /\ [][TelSuspends /\ TelResumes /\ TelClosed]_vars
    /\ (~t_rx /\ t_waiting # <<>>) ~> (t_waiting = <<>>)

\* a call that was suspended on the full channel returned Ok after the
\* receiver took an item, and a later call is suspended in turn
C26_Witness ==
    /\ t_cap = 1
    /\ t_rx
    /\ Len(t_ret) = 3
    /\ t_taken = <<TelItem(t_ch, 1)>>
    /\ t_queue = <<TelItem(t_ch, 2)>>
    /\ t_waiting = <<TelItem(t_ch, 3)>>

\* a call suspended on the full channel returned the error after the
\* receiver was dropped
C26_ClosedWitness ==
    /\ ~t_rx
    /\ Len(t_ret) >= 2
    /\ t_ret[1] = Ok(<<>>)
    /\ t_ret[2] = Err("InvalidFormat", "channel closed")
    /\ t_taken = <<>>

---------------------------------------------------------------------------
(* Transport<T>: a frame whose body does not decode *)

\* the complete frames at the head of a byte stream, each with its prefix
RECURSIVE WireFrames(_)
WireFrames(bytes) ==
    IF Len(bytes) < 4 THEN <<>>
    ELSE LET n == from_be_bytes(SubSeq(bytes, 1, 4))
         IN  IF Len(bytes) < 4 + n THEN <<>>
             ELSE <<SubSeq(bytes, 1, 4 + n)>>
                      \o WireFrames(SubSeq(bytes, 5 + n, Len(bytes)))

\* the bytes of the first n frames
RECURSIVE Concat(_, _)
Concat(frames, n) ==
    IF n = 0 THEN <<>> ELSE Concat(frames, n - 1) \o frames[n]

\* decode refused the body of a frame
DecodeFailed(r) == r.kind = "Err" /\ FromFrame(r)

\* C31: each complete frame yields one result, the error of decode
\* included: the j-th result that came from a frame is what decode gives
\* for the body of the j-th frame on the wire, the prefixes and bodies of
\* the frames already returned are gone from read_buf whether decode
\* accepted them or not, and what read_buf and the pipe hold starts at the
\* following frame.
C31_FailedFrameConsumed ==
    LET frames == WireFrames(wire)
    IN  /\ Len(Returned) <= Len(frames)
        /\ \A j \in 1..Len(Returned) : Returned[j] = ReceiveWhole(frames[j])
        /\ Concat(frames, Len(Returned)) \o read_buf \o inner = wire

\* a frame that decode refused was followed by a valid frame, which the
\* next receive returned
C31_Witness ==
    /\ Len(Returned) = 2
    /\ DecodeFailed(Returned[1])
    /\ Len(sent) = 1
    /\ Returned[2] = Ok([sent[1] EXCEPT !.flags = DefinedBits(sent[1].flags)])
    /\ read_buf = <<>>
    /\ r_pc = "idle"

---------------------------------------------------------------------------
(* Transport<T>: sends that fail or are dropped partway *)

\* C32: whatever calls of send returned an error or were dropped partway,
\* the bytes the endpoint accepted followed by write_buf are the frames of
\* the messages passed to send, in call order: the accepted bytes are a
\* prefix of those frames, the unsent bytes of an interrupted frame go out
\* before the next frame, and the receiver gets the messages in order,
\* those of the interrupted sends included.
C32_WirePrefix ==
    /\ wire \o write_buf = ExpectedWire(sent)
    /\ IsPrefix(wire, ExpectedWire(sent))
    /\ s_pc = "flushing" => write_buf = <<>>
    /\ Len(Returned) <= Len(sent)
    /\ \A j \in 1..Len(Returned) :
          Returned[j] = ReceiveWhole(ExpectedFrame(sent[j]))

\* the first send returned a write error with part of its frame accepted
\* and the rest in write_buf
C32_PartialWitness ==
    /\ s_pc = "idle"
    /\ send_results = <<Err("IoError", "write")>>
    /\ wire # <<>>
    /\ write_buf # <<>>
    /\ wire \o write_buf = ExpectedFrame(sent[1])

\* the first send was dropped partway, the second returned Ok, and the
\* receiver got both messages
C32_Witness ==
    /\ send_results = <<Cancelled, Ok("unit")>>
    /\ Len(sent) = 2
    /\ sent[1] # sent[2]
    /\ flushed = Len(ExpectedWire(sent))
    /\ Len(Returned) = 2
    /\ Returned[1].kind = "Ok"
    /\ Returned[1].val[1] = [sent[1] EXCEPT !.flags = DefinedBits(sent[1].flags)]
    /\ Returned[2].kind = "Ok"

\* the same after a send that returned a write error
C32_ErrorWitness ==
    /\ send_results = <<Err("IoError", "write"), Ok("unit")>>
    /\ Len(sent) = 2
    /\ Len(Returned) = 2
    /\ Returned[1].kind = "Ok"
    /\ Returned[2].kind = "Ok"

---------------------------------------------------------------------------
(* RemusClient::request: which frame a call returns *)

\* the i-th call was a request that returned the payload of a frame
GotFrame(i) == q_calls[i].op = "request" /\ q_results[i].kind = "Ok"

\* how many frames the requests before the i-th call have taken
FramesBefore(i) == Cardinality({j \in 1..(i - 1) : GotFrame(j)})

\* C33: request returns the payload of the first complete frame its
\* receive finds, whatever the msg_type and request_id of that frame: the
\* request that takes the k-th frame of the connection returns the payload
\* of the k-th message the server wrote, so after a request that timed out
\* each later request returns the response written for its predecessor.
C33_NoCorrelation ==
    \A i \in 1..Len(q_results) :
        GotFrame(i) =>
            /\ FramesBefore(i) < Len(srv_msgs)
            /\ q_results[i] = Ok(srv_msgs[FramesBefore(i) + 1].payload)

\* the first request timed out, the server then wrote its one response,
\* and the second request returned the payload of that response
C33_Witness ==
    /\ Len(q_calls) = 2
    /\ q_calls[1].op = "request"
    /\ q_calls[2].op = "request"
    /\ Len(srv_msgs) = 1
    /\ q_results = <<RequestTimeout, Ok(srv_msgs[1].payload)>>
    /\ srv_msgs[1].msg_type = "Response"
    /\ srv_msgs[1].request_id # sent[2].request_id

\* a request returned the payload of an Event whose request_id is not its
\* own
C33_EventWitness ==
    /\ q_results # <<>>
    /\ srv_msgs # <<>>
    /\ GotFrame(1)
    /\ srv_msgs[1].msg_type = "Event"
    /\ srv_msgs[1].request_id # sent[1].request_id
    /\ q_results[1] = Ok(srv_msgs[1].payload)

---------------------------------------------------------------------------
(* RemusClient::stream: the Sender of the returned MessageStream *)

\* C34: after stream() has returned the MessageStream, the sending end of
\* its queue is alive, and, no end marker having been pushed and no
\* producer having dropped a sender, no pull reports end-of-stream.
C34_SenderKept ==
    StreamReturned =>
        /\ st_tx
        /\ \A i \in 1..Len(st_pulled) : st_pulled[i] # ReadyNone

\* what the code does: once stream() has returned, every Sender is gone,
\* the queue is empty, and each pull reports end-of-stream
C34_SenderDropped ==
    StreamReturned =>
        /\ ~st_tx
        /\ st_queue = <<>>
        /\ st_pushed = <<>>
        /\ \A i \in 1..Len(st_pulled) : st_pulled[i] = ReadyNone

\* the first pull on a stream that stream() returned reported end-of-stream
C34_Witness ==
    /\ StreamReturned
    /\ Len(q_calls) = 1
    /\ st_pulled = <<ReadyNone>>
    /\ st_closed

---------------------------------------------------------------------------
(* StateManager under concurrent calls, checked under SpecLock *)

\* the state map and the version history belong to the same update: they
\* are empty together (when a history is kept at all), and the checksum of
\* the newest version is that of a value in the map
Coherent ==
    /\ m_max > 0 => ((DOMAIN m_state = {}) <=> (m_versions = <<>>))
    /\ m_versions # <<>> =>
          \E k \in DOMAIN m_state :
              m_versions[Len(m_versions)].checksum = calculate_checksum(m_state[k])

\* task t holds the write guards of both locks, and nobody else holds any
HoldsBoth(t) ==
    /\ k_locks["state"].holders = {Hold(t, "write")}
    /\ k_locks["versions"].holders = {Hold(t, "write")}

\* the entries of the log made by apply_delta and clear_state
IsUpdate(e) == e.op \in {"apply_delta", "clear_state"}

Updates == SelectSeq(k_log, IsUpdate)

\* while an update is half applied its task holds both write guards alone;
\* otherwise map and history are coherent; a task that holds the versions
\* write guard holds the state write guard; after a clear_state, until the
\* next update begins to write, map and history are both empty, and the
\* apply_delta that follows a clear_state returns version 1
LockSafe ==
    /\ \A t \in Workers : k_pc[t] = "half" => HoldsBoth(t)
    /\ (\A t \in Workers : k_pc[t] # "half") => Coherent
    /\ \A t \in Workers :
          Hold(t, "write") \in k_locks["versions"].holders =>
              Hold(t, "write") \in k_locks["state"].holders
    /\ (/\ Updates # <<>>
        /\ Updates[Len(Updates)].op = "clear_state"
        /\ \A t \in Workers : k_pc[t] # "half")
       => (m_state = NoState /\ m_versions = <<>>)
    /\ \A i \in 2..Len(Updates) :
          (Updates[i - 1].op = "clear_state" /\ Updates[i].op = "apply_delta")
              => Updates[i].ret.version = 1

\* C35: under any interleaving of apply_delta, clear_state, get_state,
\* validate_version and get_version_history no half-applied update can be
\* read (apply_delta and clear_state take the state write lock before the
\* versions write lock and hold both until done), after clear_state map
\* and history are empty together and the next apply_delta returns
\* version 1, and every call eventually returns.
C35_NoDeadlock ==
    /\ []LockSafe
    /\ \A t \in Workers : (k_pc[t] # "idle") ~> (k_pc[t] = "idle")

\* an apply_delta has changed the map and not yet the history, with both
\* write guards, while a clear_state waits in the queue of the state lock
C35_Witness ==
    /\ \E t \in Workers :
          /\ k_pc[t] = "half"
          /\ k_call[t].op = "apply_delta"
          /\ HoldsBoth(t)
    /\ \E u \in Workers :
          /\ k_pc[u] = "waiting"
          /\ k_call[u].op = "clear_state"
          /\ k_locks["state"].queue = <<Hold(u, "write")>>
    /\ ~Coherent

\* a reader holds the versions lock while an apply_delta that has the state
\* write guard waits for the versions write guard
C35_ReaderWitness ==
    \E t \in Workers, u \in Workers :
        /\ k_pc[t] = "waiting"
        /\ k_call[t].op = "apply_delta"
        /\ k_locks["state"].holders = {Hold(t, "write")}
        /\ k_locks["versions"].holders = {Hold(u, "read")}
        /\ k_locks["versions"].queue = <<Hold(t, "write")>>

\* an apply_delta that waited behind a clear_state returned version 1 and
\* left one entry in the map and one in the history
C35_ClearWitness ==
    /\ Len(k_log) = 2
    /\ k_log[1].op = "clear_state"
    /\ k_log[2].op = "apply_delta"
    /\ k_log[2].ret.version = 1
    /\ m_state = [k \in {"k1"} |-> <<1>>]
    /\ Len(m_versions) = 1
    /\ \A t \in Workers : k_pc[t] = "idle"

=============================================================================
